---- MODULE Spec2Model ----
(***************************************************************************)
(* EdgeLite engagement pipeline (src/model1): the per-frame detectors, the *)
(* two scorers and the orchestrator, as state machines.                    *)
(*                                                                         *)
(* Numbers.  The code computes in IEEE 754 double precision (Python float, *)
(* NumPy float64) and, in the gesture detector, in float32.  The model     *)
(* computes the same operations in the same order on the same values: a    *)
(* float is the record [neg, m, e] of its sign, its mantissa (53 bits, or  *)
(* 24 for float32, as digits in base 2^14) and its exponent, and every     *)
(* sum, difference, product and quotient is rounded to nearest, ties to    *)
(* even, as the hardware rounds it.                                        *)
(*   scores in [0,100]  : what round(x, 1) returns, held as the whole      *)
(*                        number of tenths t; the float is Tenths(t)       *)
(*   landmark frames    : whole pixels, whole distances; the eye-corner    *)
(*                        line along an axis or a diagonal, the directions *)
(*                        whose angle atan2 returns exactly                *)
(*   decimal literals   : Dec(n, d), the float nearest n / d               *)
(***************************************************************************)
EXTENDS Integers, Sequences, FiniteSets, TLC

VARIABLES
    ear,      \* EARDetector instance
    head,     \* HeadPoseDetector instance
    gaze,     \* EyeContactDetector instance
    gest,     \* GestureDetector instance
    conf,     \* ConfusionScorer instance
    eng,      \* EngagementScorer instance
    pipe,     \* EngagementPipeline: frame number, nose histories, session log
    result,   \* the EngagementResult returned by the last process_frame
    obsEar,   \* observer of the eye-closure signal (raw and smoothed runs)
    obsGest,  \* observer of the gesture flags
    sched,    \* the input generator's position in its scenario
    twin,     \* a second pipeline fed the same frames, with both published snapshots
    srv,      \* api_server.py: SharedState, capture worker, callers
    cfg       \* config.py: the weight maps as loaded (module attributes)

vars == <<ear, head, gaze, gest, conf, eng, pipe, result, obsEar, obsGest, sched,
          twin, srv, cfg>>

----------------------------------------------------------------------------
(* helpers: integers and sequences *)

Min(a, b) == IF a < b THEN a ELSE b
Max(a, b) == IF a > b THEN a ELSE b
Abs(a) == IF a < 0 THEN -a ELSE a

RECURSIVE Sum(_)
Sum(s) == IF s = <<>> THEN 0 ELSE Head(s) + Sum(Tail(s))

Range(s) == {s[i] : i \in 1..Len(s)}

\* a local variable of the code: x is evaluated once, then Op is applied to its value
With(x, Op(_)) == CHOOSE r \in {Op(v) : v \in {x}} : TRUE

\* collections.deque(maxlen=n).append(x): the oldest entry leaves a full deque
DequeAppend_NoEvict(s, x, n) == IF Len(s) >= n THEN s ELSE Append(s, x)
DequeAppend_Overfill(s, x, n) == IF Len(s) > n THEN Append(Tail(s), x) ELSE Append(s, x)
DequeAppend(s, x, n) == IF Len(s) >= n THEN Append(Tail(s), x) ELSE Append(s, x)

----------------------------------------------------------------------------
(* helpers: natural numbers of any size, as little-endian digits in base   *)
(* 2^14 (a mantissa of 53 bits does not fit a machine integer of the model) *)

\* the product of two digits fits a machine integer of the model checker
Base == 128 * 128

RECURSIVE IntBitLen(_)
IntBitLen(n) == IF n = 0 THEN 0 ELSE 1 + IntBitLen(n \div 2)

\* the bits of a digit
DigitBits == IntBitLen(Base) - 1

RECURSIVE BTrim(_)
BTrim(a) == IF a = <<>> THEN a
            ELSE IF a[Len(a)] = 0 THEN BTrim(SubSeq(a, 1, Len(a) - 1)) ELSE a

RECURSIVE BFromInt(_)
BFromInt(n) == IF n = 0 THEN <<>> ELSE <<n % Base>> \o BFromInt(n \div Base)

RECURSIVE BToInt(_)
BToInt(a) == IF a = <<>> THEN 0 ELSE a[1] + Base * BToInt(Tail(a))

\* the bit lengths of the digits, kept in a table
DigitBitLens == [n \in 0..(Base - 1) |-> IntBitLen(n)]

BBitLen(a) == IF a = <<>> THEN 0 ELSE DigitBits * (Len(a) - 1) + DigitBitLens[a[Len(a)]]

RECURSIVE BAddC(_, _, _)
BAddC(a, b, c) ==
    IF b = <<>> /\ c = 0 THEN a
    ELSE IF a = <<>> /\ c = 0 THEN b
    ELSE LET x == IF a = <<>> THEN 0 ELSE a[1]
             y == IF b = <<>> THEN 0 ELSE b[1]
             s == x + y + c
         IN <<s % Base>> \o BAddC(IF a = <<>> THEN a ELSE Tail(a),
                                  IF b = <<>> THEN b ELSE Tail(b), s \div Base)
BAdd(a, b) == BAddC(a, b, 0)

(* a - b for a >= b *)
RECURSIVE BSubC(_, _, _)
BSubC(a, b, c) ==
    IF a = <<>> \/ (b = <<>> /\ c = 0) THEN a
    ELSE LET y == IF b = <<>> THEN 0 ELSE b[1]
             s == a[1] - y - c
         IN <<s % Base>> \o BSubC(Tail(a), IF b = <<>> THEN b ELSE Tail(b),
                                  IF s < 0 THEN 1 ELSE 0)
BSub(a, b) == BTrim(BSubC(a, b, 0))

RECURSIVE BCmpFrom(_, _, _)
BCmpFrom(a, b, i) == IF i = 0 THEN 0
                     ELSE IF a[i] < b[i] THEN -1
                     ELSE IF a[i] > b[i] THEN 1 ELSE BCmpFrom(a, b, i - 1)
BCmp(a, b) == IF Len(a) < Len(b) THEN -1
              ELSE IF Len(a) > Len(b) THEN 1 ELSE BCmpFrom(a, b, Len(a))

(* a * k for 0 <= k < 2^16 *)
RECURSIVE BMulSmallC(_, _, _)
BMulSmallC(a, k, c) ==
    IF a = <<>> THEN BFromInt(c)
    ELSE LET s == a[1] * k + c IN <<s % Base>> \o BMulSmallC(Tail(a), k, s \div Base)
BMulSmall(a, k) == IF k = 0 THEN <<>> ELSE BMulSmallC(a, k, 0)

RECURSIVE BMul(_, _)
BMul(a, b) == IF b = <<>> \/ a = <<>> THEN <<>>
              ELSE LET rest == BMul(a, Tail(b))
                   IN BAdd(BMulSmall(a, b[1]), IF rest = <<>> THEN rest ELSE <<0>> \o rest)

(* a \div d and a % d for 0 < d <= 2^16: digits from the top *)
RECURSIVE BDivSmallFrom(_, _, _, _)
BDivSmallFrom(a, d, i, r) ==
    IF i = 0 THEN [q |-> <<>>, r |-> r]
    ELSE LET cur == r * Base + a[i]
             low == BDivSmallFrom(a, d, i - 1, cur % d)
         IN [q |-> Append(low.q, cur \div d), r |-> low.r]
BDivSmallTrim(x) == [q |-> BTrim(x.q), r |-> x.r]
BDivSmall(a, d) == BDivSmallTrim(BDivSmallFrom(a, d, Len(a), 0))

RECURSIVE Zeros(_)
Zeros(n) == IF n = 0 THEN <<>> ELSE <<0>> \o Zeros(n - 1)

BShl(a, k) == IF a = <<>> THEN a
              ELSE Zeros(k \div DigitBits) \o BMulSmall(a, 2^(k % DigitBits))

BShr(a, k) == IF k \div DigitBits >= Len(a) THEN <<>>
              ELSE BDivSmall(SubSeq(a, k \div DigitBits + 1, Len(a)), 2^(k % DigitBits)).q

BBit(a, i) == IF i \div DigitBits >= Len(a) THEN 0
              ELSE (a[i \div DigitBits + 1] \div 2^(i % DigitBits)) % 2

(* the low k bits of a are all zero *)
BLowZero(a, k) == /\ \A i \in 1..Min(k \div DigitBits, Len(a)) : a[i] = 0
                  /\ \/ k \div DigitBits >= Len(a)
                     \/ a[k \div DigitBits + 1] % 2^(k % DigitBits) = 0

(* the number of zero bits below the lowest one bit, of a positive number *)
RECURSIVE IntTrailingZeros(_)
IntTrailingZeros(n) == IF n % 2 = 1 THEN 0 ELSE 1 + IntTrailingZeros(n \div 2)
\* the trailing zeros of the non-zero digits, kept in a table
DigitTrailingZeros == [n \in 1..(Base - 1) |-> IntTrailingZeros(n)]
RECURSIVE BTrailingZeros(_)
BTrailingZeros(a) == IF a[1] = 0 THEN DigitBits + BTrailingZeros(Tail(a))
                     ELSE DigitTrailingZeros[a[1]]

(* one more quotient digit of r / d for r < d, d with its top digit at least
   Base / 2: the estimate from the two top digits is at most 2 too large *)
BLongDivTop(u, n) ==
    (IF Len(u) > n THEN u[n + 1] * Base ELSE 0) + (IF Len(u) >= n THEN u[n] ELSE 0)
BLongDivFit(d, u, qhat) ==
    IF BCmp(BMulSmall(d, qhat), u) <= 0 THEN qhat
    ELSE IF BCmp(BMulSmall(d, qhat - 1), u) <= 0 THEN qhat - 1 ELSE qhat - 2
BLongDivTake(d, u, q) == [q |-> q, r |-> BSub(u, BMulSmall(d, q))]
BLongDivShifted(d, u) ==
    BLongDivTake(d, u, BLongDivFit(d, u, Min(BLongDivTop(u, Len(d)) \div d[Len(d)], Base - 1)))
BLongDivDigit(r, d) == BLongDivShifted(d, IF r = <<>> THEN r ELSE <<0>> \o r)

(* floor(r * Base^digits / d) for r < d, and whether a remainder is left *)
RECURSIVE BLongDiv(_, _, _)
BLongDiv(r, d, digits) ==
    IF digits = 0 THEN [q |-> <<>>, inexact |-> r # <<>>]
    ELSE With(BLongDivDigit(r, d), LAMBDA top:
         With(BLongDiv(top.r, d, digits - 1), LAMBDA low:
             [q |-> Append(low.q, top.q), inexact |-> low.inexact]))

----------------------------------------------------------------------------
(* helpers: IEEE 754 binary floating point, round to nearest, ties to even. *)
(* A value is [neg, m, e]: (-1)^neg * m * 2^e with m of exactly p bits     *)
(* (p = 53 for float64, 24 for float32), or m = <<>> for zero.              *)
P64 == 53
P32 == 24
FZero == [neg |-> FALSE, m |-> <<>>, e |-> 0]

(* the p-bit float nearest to n * 2^e: n of len bits loses its low k = len - p
   bits, q is what stays, one more when the bits cut are above a half or are
   a half and q is odd; q2 may then have p + 1 bits *)
FRoundCarry(neg, q2, e, p) ==
    IF BBitLen(q2) > p THEN [neg |-> neg, m |-> BShr(q2, 1), e |-> e + 1]
    ELSE [neg |-> neg, m |-> q2, e |-> e]
FRoundUp(n, k, q) == BBit(n, k - 1) = 1 /\ (~BLowZero(n, k - 1) \/ BBit(q, 0) = 1)
FRoundCut(neg, n, e, p, k, q) ==
    FRoundCarry(neg, IF FRoundUp(n, k, q) THEN BAdd(q, <<1>>) ELSE q, e + k, p)
FRoundLen(neg, n, e, p, len) ==
    IF len = 0 THEN FZero
    ELSE IF len <= p THEN [neg |-> neg, m |-> BShl(n, p - len), e |-> e - (p - len)]
    ELSE FRoundCut(neg, n, e, p, len - p, BShr(n, len - p))
FRound(neg, n, e, p) == FRoundLen(neg, n, e, p, BBitLen(n))

FInt(n, p) == FRound(n < 0, BFromInt(Abs(n)), 0, p)

FNeg(x) == IF x.m = <<>> THEN x ELSE [x EXCEPT !.neg = ~x.neg]
FAbs(x) == [x EXCEPT !.neg = FALSE]

(* -1, 0, 1 as |x| is below, equal to or above |y| *)
FCmpMag(x, y) == IF x.m = <<>> THEN (IF y.m = <<>> THEN 0 ELSE -1)
                 ELSE IF y.m = <<>> THEN 1
                 ELSE IF x.e # y.e THEN (IF x.e < y.e THEN -1 ELSE 1)
                 ELSE BCmp(x.m, y.m)
FSign(x) == IF x.m = <<>> THEN 0 ELSE IF x.neg THEN -1 ELSE 1
FCmp(x, y) == IF FSign(x) # FSign(y) THEN (IF FSign(x) < FSign(y) THEN -1 ELSE 1)
              ELSE FSign(x) * FCmpMag(x, y)
FLess(x, y) == FCmp(x, y) < 0
FLeq(x, y) == FCmp(x, y) <= 0
FMin(x, y) == IF FLess(y, x) THEN y ELSE x
FMax(x, y) == IF FLess(x, y) THEN y ELSE x

(* big has the larger exponent; a is its mantissa at the exponent of small;
   under: the signs differ and small has the larger magnitude *)
FAddAligned(big, small, a, under, p) ==
    FRound(IF under THEN small.neg ELSE big.neg,
           IF big.neg = small.neg THEN BAdd(a, small.m)
           ELSE IF under THEN BSub(small.m, a) ELSE BSub(a, small.m),
           small.e, p)
FAddShifted(big, small, a, p) ==
    FAddAligned(big, small, a, big.neg # small.neg /\ BCmp(a, small.m) < 0, p)
FAddOrdered(big, small, p) ==
    IF big.e - small.e > p + 2 THEN big
    ELSE FAddShifted(big, small, BShl(big.m, big.e - small.e), p)
FAddP(x, y, p) ==
    IF x.m = <<>> THEN y
    ELSE IF y.m = <<>> THEN x
    ELSE FAddOrdered(IF x.e >= y.e THEN x ELSE y, IF x.e >= y.e THEN y ELSE x, p)
FSubP(x, y, p) == FAddP(x, FNeg(y), p)
FMulP(x, y, p) == IF x.m = <<>> \/ y.m = <<>> THEN FZero
                  ELSE FRound(x.neg # y.neg, BMul(x.m, y.m), x.e + y.e, p)
(* x / y: y.m is odd * 2^t.  A short odd part divides x.m * 2^18 digit by
   digit; a long one is normalised (top digit at least Base / 2) and divided
   by long division.  The quotient q at exponent e, doubled and with a sticky
   bit for the remainder, is rounded once *)
FDivRound(neg, quot, p) ==
    FRound(neg, BAdd(BAdd(quot.q, quot.q), IF quot.inexact THEN <<1>> ELSE <<>>),
           quot.e, p)
FDivShortQuot(dv, e) == [q |-> dv.q, inexact |-> dv.r # 0, e |-> e]
FDivLongQuot(dv, first, e) ==
    [q |-> IF first THEN BAdd(dv.q, <<0, 0, 0, 0, 1>>) ELSE BTrim(dv.q),
     inexact |-> dv.inexact, e |-> e]
FDivLongFrom(xn, yn, first, e) ==
    FDivLongQuot(BLongDiv(IF first THEN BSub(xn, yn) ELSE xn, yn, 4), first, e)
FDivLongNorm(xn, yn, e) == FDivLongFrom(xn, yn, BCmp(xn, yn) >= 0, e)
FDivLong(x, y, norm) ==
    FDivLongNorm(BShl(x.m, norm), BShl(y.m, norm), x.e - y.e - (4 * DigitBits + 1))
FDivQuot(x, y, t, odd) ==
    IF BBitLen(odd) <= 16
    THEN FDivShortQuot(BDivSmall(BShl(x.m, 18), BToInt(odd)), x.e - y.e - t - 19)
    ELSE FDivLong(x, y, DigitBits * Len(y.m) - BBitLen(y.m))
FDivOdd(x, y, t) == FDivQuot(x, y, t, BShr(y.m, t))
FDivP(x, y, p) ==
    IF x.m = <<>> THEN FZero
    ELSE FDivRound(x.neg # y.neg, FDivOdd(x, y, BTrailingZeros(y.m)), p)

(* float64 arithmetic of the interpreter; the floats of the small whole
   numbers are kept in a table *)
SmallInts == 0..1023
SmallFloats == [n \in SmallInts |-> FInt(n, P64)]
F(n) == IF n \in SmallInts THEN SmallFloats[n] ELSE FInt(n, P64)
FAdd(x, y) == FAddP(x, y, P64)
FSub(x, y) == FSubP(x, y, P64)
FMul(x, y) == FMulP(x, y, P64)
FDiv(x, y) == FDivP(x, y, P64)
(* the float a decimal literal n / d denotes *)
Dec(n, d) == FDiv(F(n), F(d))
F0 == FZero
F1 == F(1)

(* round(x, 1) as a whole number of tenths: the nearest tenth to the exact value of x,
   an exact tie going to the even tenth *)
Round1Cut(n, k, q) ==
    IF BBit(n, k - 1) = 1 /\ (~BLowZero(n, k - 1) \/ q % 2 = 1) THEN q + 1 ELSE q
Round1Tenths(n, e) ==
    IF e >= 0 THEN BToInt(BShl(n, e)) ELSE Round1Cut(n, -e, BToInt(BShr(n, -e)))
Round1Signed(neg, t) == IF neg THEN -t ELSE t
Round1(x) ==
    IF x.m = <<>> THEN 0 ELSE Round1Signed(x.neg, Round1Tenths(BMulSmall(x.m, 10), x.e))

(* float32 of a float64 value *)
ToF32(x) == FRound(x.neg, x.m, x.e, P32)

(* the float of a score held in tenths, and of each entry of a history; the
   floats of the scores 0.0 .. 100.0 are kept in a table *)
Scores == 0..1000
ScoreFloats == [t \in Scores |-> Dec(t, 10)]
Tenths(t) == IF t \in Scores THEN ScoreFloats[t] ELSE Dec(t, 10)
(* a decimal given in thousandths or millionths; the floats of 0.000 .. 1.000
   are kept in a table *)
Thousandths == 0..1000
MilliFloats == [x \in Thousandths |-> Dec(x, 1000)]
Milli(x) == IF x \in Thousandths THEN MilliFloats[x] ELSE Dec(x, 1000)
Micro(x) == Dec(x, 1000000)
MilliSeq(h) == [i \in 1..Len(h) |-> Milli(h[i])]
(* 0 <= x <= 1 *)
InUnit(x) == FLeq(F0, x) /\ FLeq(x, F1)

----------------------------------------------------------------------------
(* helpers: NumPy reductions over a float64 array *)

\* the accumulator j of the unrolled loop after block k: a[j] + a[8 + j] + ...
RECURSIVE Lane(_, _, _)
Lane(a, j, k) == IF k = 0 THEN a[j] ELSE FAdd(Lane(a, j, k - 1), a[8 * k + j])

\* res += a[i] for the entries from..i
RECURSIVE AddEach(_, _, _, _)
AddEach(res, a, from, i) ==
    IF i < from THEN res ELSE FAdd(AddEach(res, a, from, i - 1), a[i])

\* the eight accumulators added in pairs
PairLanes(r) ==
    FAdd(FAdd(FAdd(r[1], r[2]), FAdd(r[3], r[4])),
         FAdd(FAdd(r[5], r[6]), FAdd(r[7], r[8])))

\* np.add.reduce: pairwise summation, a plain loop below 8 entries, eight
\* accumulators up to 128 entries, halves above
RECURSIVE np_sum(_)
np_sum(a) ==
    LET n == Len(a) IN
    IF n < 8 THEN AddEach(F0, a, 1, n)
    ELSE IF n <= 128
    THEN AddEach(PairLanes([j \in 1..8 |-> Lane(a, j, n \div 8 - 1)]),
                 a, 8 * (n \div 8) + 1, n)
    ELSE LET n2 == (n \div 2) - ((n \div 2) % 8)
         IN FAdd(np_sum(SubSeq(a, 1, n2)), np_sum(SubSeq(a, n2 + 1, n)))

\* np.mean: the sum divided by the count
np_mean(a) == FDiv(np_sum(a), F(Len(a)))

\* np.var: the mean of the squared distances from the mean
np_var(a) ==
    With(np_mean(a), LAMBDA arrmean:
        With([i \in 1..Len(a) |-> With(FSub(a[i], arrmean), LAMBDA d: FMul(d, d))],
             LAMBDA x: FDiv(np_sum(x), F(Len(a)))))

----------------------------------------------------------------------------
(* config.py *)

TARGET_FPS == 30
SMOOTHING_WINDOW == 10
BLINK_WINDOW == 90
GESTURE_WINDOW == 45
CONFUSION_WINDOW == 60
ENGAGEMENT_WINDOW == 30

EAR_THRESHOLD == 210          \* 0.21, thousandths
EAR_CONSEC_FRAMES == 3
SLEEP_EAR_THRESHOLD == 180    \* 0.18, thousandths
SLEEP_CONSEC_FRAMES == 150

TILT_THRESHOLD_DEG == 15      \* 15.0 degrees
TILT_CONSEC_FRAMES == 90

EYE_CONTACT_NOSE_TOLERANCE == 40   \* 0.04, thousandths

\* weights in percent (0.25 -> 25); the scorers read the maps from the config
\* module at every call (w = cfg.CONFUSION_WEIGHTS)
DefaultConfig ==
    [CONFUSION_WEIGHTS |->
        [blink_rate |-> 25, head_variance |-> 30, gaze_reduction |-> 25,
         micro_movement |-> 20],
     ENGAGEMENT_WEIGHTS |->
        [eye_openness |-> 30, head_stability |-> 25, eye_contact |-> 30,
         confusion_penalty |-> 15]]

CONFUSION_WEIGHTS == cfg.CONFUSION_WEIGHTS
BLINK_RATE_HIGH == 25
BLINK_RATE_LOW == 8
MICRO_MOVE_HIGH == 3000       \* 0.003, millionths

ENGAGEMENT_WEIGHTS == cfg.ENGAGEMENT_WEIGHTS

NOD_OSCILLATIONS == 2
SHAKE_OSCILLATIONS == 2
GESTURE_DEADZONE == 8         \* 0.008, thousandths

LOG_INTERVAL_FRAMES == 30

\* ear_detector.py: deque(maxlen=200) of blink frame numbers
BLINK_FRAMES_MAXLEN == 200
\* ear_detector.py normalised_ear: EAR >= 0.30 maps to 1.0 (thousandths)
EAR_FULLY_OPEN == 300
\* head_pose.py: 50 deg^2 is "very high" variance
HEAD_VAR_SCALE == 50
\* gesture.py
COOLDOWN == 20

\* a weight of the maps, as the float the scorers multiply by
Percents == 0..100
PercentFloats == [p \in Percents |-> Dec(p, 100)]
Weight(percent) == IF percent \in Percents THEN PercentFloats[percent] ELSE Dec(percent, 100)

\* the grid on which the scorer specifications enumerate their sub-signal
\* inputs: Sig(x) is the float x / One
One == 100 * 100
Quarters == {k * (One \div 4) : k \in 0..8}
QuarterFloats == [x \in Quarters |-> Dec(x, One)]
Sig(x) == IF x \in Quarters THEN QuarterFloats[x] ELSE Dec(x, One)

----------------------------------------------------------------------------
(* landmarks.py: the geometry kernel.  A landmark frame lm is a record of   *)
(* the measurements the kernel reads: for each eye the three distances of  *)
(* the six-point model (va = |p2-p6|, vb = |p3-p5|, h = |p1-p4|), the     *)
(* pixel offset (eye_dx, eye_dy) from the left to the right outer eye      *)
(* corner, and the pixel coordinates of nose tip, cheeks, forehead, chin.  *)

\* eye_aspect_ratio: 0.0 when horizontal < 1e-6, else
\* (vertical_a + vertical_b) / (2.0 * horizontal)
eye_aspect_ratio(eye) ==
    IF eye.h <= 0 THEN F0 ELSE FDiv(FAdd(F(eye.va), F(eye.vb)), FMul(F(2), F(eye.h)))

\* math.degrees(math.atan2(dy, dx)) for the directions whole pixels measure
\* exactly: along an axis or a diagonal the float result is the multiple of
\* 45 degrees itself (atan2(0, 0) is 0); no other direction enters a frame
Atan2Degrees(dy, dx) ==
    CASE dy = 0 /\ dx >= 0 -> 0
      [] dy = 0 /\ dx < 0 -> 180
      [] dx = 0 /\ dy > 0 -> 90
      [] dx = 0 /\ dy < 0 -> 0 - 90
      [] dy = dx /\ dx > 0 -> 45
      [] dy = dx /\ dx < 0 -> 0 - 135
      [] dy = 0 - dx /\ dx > 0 -> 0 - 45
      [] dy = 0 - dx /\ dx < 0 -> 135

\* eye_tilt_angle: the angle of the vector from the left to the right outer eye
\* corner, dx = right[0] - left[0], dy = right[1] - left[1]
eye_tilt_angle(lm) == F(Atan2Degrees(lm.eye_dy, lm.eye_dx))

\* nose_face_deviation: 0.0 when face_width < 1e-6, else
\* (nose_x - (left_x + right_x) / 2.0) / face_width
nose_face_deviation(lm) ==
    With(FSub(F(lm.right_x), F(lm.left_x)), LAMBDA face_width:
    With(FDiv(FAdd(F(lm.left_x), F(lm.right_x)), F(2)), LAMBDA face_center_x:
        IF FLess(face_width, Micro(1)) THEN F0
        ELSE FDiv(FSub(F(lm.nose_x), face_center_x), face_width)))

\* nose_position_normalised: (nx, ny) relative to the face box, the box sides
\* floored at 1e-6 (max(w, 1e-6))
nose_position_normalised(lm) ==
    LET face_w == FMax(FSub(F(lm.right_x), F(lm.left_x)), Micro(1))
        face_h == FMax(FSub(F(lm.bot_y), F(lm.top_y)), Micro(1))
        nx == FDiv(FSub(F(lm.nose_x), F(lm.left_x)), face_w)
        ny == FDiv(FSub(F(lm.nose_y), F(lm.top_y)), face_h)
    IN  <<nx, ny>>

----------------------------------------------------------------------------
(* ear_detector.py: EARDetector *)

EARDetector_init ==
    [ear_history |-> <<>>, blink_frames |-> <<>>, blink_counter |-> 0,
     sleep_counter |-> 0, total_blinks |-> 0, current_frame |-> 0,
     ear_left |-> F0, ear_right |-> F0, ear_avg |-> F0,
     is_blinking |-> FALSE, is_sleeping |-> FALSE,
     blinks_in_window |-> 0, blinks_per_minute |-> F0]

\* smooth_ear < threshold, smooth_ear = float(np.mean(ear_history)) and the
\* threshold in thousandths
Below(smooth_ear, threshold) == FLess(smooth_ear, Milli(threshold))
SmoothBelow(hist, threshold) == Below(np_mean(hist), threshold)

\* the closure that ends now is long enough to count as a blink
BlinkCounted_Short(counter) == counter >= EAR_CONSEC_FRAMES - 1
BlinkCounted_Long(counter) == counter > EAR_CONSEC_FRAMES
BlinkCounted(counter) == counter >= EAR_CONSEC_FRAMES

\* the sleep counter: consecutive updates with smooth_ear below the sleep threshold
SleepCounterNext_NoReset(below, counter) == IF below THEN counter + 1 ELSE counter
SleepCounterNext(below, counter) == IF below THEN counter + 1 ELSE 0

IsSleeping_Late(counter) == counter > SLEEP_CONSEC_FRAMES
IsSleeping_Early(counter) == counter >= SLEEP_CONSEC_FRAMES - 1
IsSleeping(counter) == counter >= SLEEP_CONSEC_FRAMES

\* while blink_frames and blink_frames[0] < cutoff: popleft()
RECURSIVE PurgeOld(_, _)
PurgeOld(frames, cutoff) ==
    IF frames # <<>> /\ Head(frames) < cutoff THEN PurgeOld(Tail(frames), cutoff)
    ELSE frames

\* window_seconds = BLINK_WINDOW / max(TARGET_FPS, 1);
\* (blinks_in_window / window_seconds) * 60.0
BlinksPerMinute(n) ==
    LET window_seconds == FDiv(F(BLINK_WINDOW), F(Max(TARGET_FPS, 1)))
    IN  FMul(FDiv(F(n), window_seconds), F(60))

\* the else branch of step 3 with the counter at or over the limit: a blink
BlinkDetected_OnClose(closed, counter) == closed /\ counter = EAR_CONSEC_FRAMES
BlinkDetected(closed, counter) == ~closed /\ BlinkCounted(counter)

BlinkCounterNext_Capped(closed, counter) ==
    IF closed THEN Min(counter + 1, SLEEP_CONSEC_FRAMES - 1) ELSE 0
BlinkCounterNext(closed, counter) == IF closed THEN counter + 1 ELSE 0

EARDetector_update(e, lm) ==
    With(e.current_frame + 1, LAMBDA frame:
    With(eye_aspect_ratio(lm.left_eye), LAMBDA left:
    With(eye_aspect_ratio(lm.right_eye), LAMBDA right:
    With(FDiv(FAdd(left, right), F(2)), LAMBDA avg:
    With(DequeAppend(e.ear_history, avg, SMOOTHING_WINDOW), LAMBDA hist:
    With(np_mean(hist), LAMBDA smooth_ear:
    With(Below(smooth_ear, EAR_THRESHOLD), LAMBDA closed:
    With(BlinkDetected(closed, e.blink_counter), LAMBDA blink:
    With(IF blink THEN DequeAppend(e.blink_frames, frame, BLINK_FRAMES_MAXLEN)
         ELSE e.blink_frames, LAMBDA recorded:
    With(SleepCounterNext(Below(smooth_ear, SLEEP_EAR_THRESHOLD), e.sleep_counter),
         LAMBDA sleep:
    With(PurgeOld(recorded, frame - BLINK_WINDOW), LAMBDA kept:
        [ear_history |-> hist,
         blink_frames |-> kept,
         blink_counter |-> BlinkCounterNext(closed, e.blink_counter),
         sleep_counter |-> sleep,
         total_blinks |-> IF blink THEN e.total_blinks + 1 ELSE e.total_blinks,
         current_frame |-> frame,
         ear_left |-> left, ear_right |-> right, ear_avg |-> avg,
         is_blinking |-> closed,
         is_sleeping |-> IsSleeping(sleep),
         blinks_in_window |-> Len(kept),
         blinks_per_minute |-> BlinksPerMinute(Len(kept))])))))))))))

\* min(ear_avg / 0.30, 1.0)
normalised_ear(e) == FMin(FDiv(e.ear_avg, Milli(EAR_FULLY_OPEN)), F1)

EARDetector_reset_KeepTotal(e) == [EARDetector_init EXCEPT !.total_blinks = e.total_blinks]
EARDetector_reset(e) == EARDetector_init

----------------------------------------------------------------------------
(* head_pose.py: HeadPoseDetector *)

HeadPoseDetector_init ==
    [angle_history |-> <<>>, var_history |-> <<>>, tilt_counter |-> 0,
     tilt_angle_deg |-> F0, smoothed_angle |-> F0, is_tilted |-> FALSE,
     angle_variance |-> F0]

\* min(raw_var / 50.0, 1.0), raw_var = float(np.var(var_history)) if len > 1 else 0.0
AngleVariance_NoClamp(hist) ==
    IF Len(hist) <= 1 THEN F0 ELSE FDiv(np_var(hist), F(HEAD_VAR_SCALE))
AngleVariance(hist) ==
    IF Len(hist) <= 1 THEN F0 ELSE FMin(FDiv(np_var(hist), F(HEAD_VAR_SCALE)), F1)

\* abs(smoothed_angle) > TILT_THRESHOLD_DEG, smoothed_angle = float(np.mean(hist))
Beyond(smoothed_angle) == FLess(F(TILT_THRESHOLD_DEG), FAbs(smoothed_angle))
SmoothTilted(hist) == Beyond(np_mean(hist))

TiltCounterNext_NoReset(tilted, counter) == IF tilted THEN counter + 1 ELSE counter
TiltCounterNext(tilted, counter) == IF tilted THEN counter + 1 ELSE 0

IsTilted(counter) == counter >= TILT_CONSEC_FRAMES

HeadPoseDetector_update(h, lm) ==
    With(eye_tilt_angle(lm), LAMBDA angle:
    With(DequeAppend(h.angle_history, angle, SMOOTHING_WINDOW), LAMBDA ah:
    With(DequeAppend(h.var_history, angle, CONFUSION_WINDOW), LAMBDA vh:
    With(np_mean(ah), LAMBDA smoothed:
    With(Beyond(smoothed), LAMBDA tilted:
    With(TiltCounterNext(tilted, h.tilt_counter), LAMBDA counter:
        [angle_history |-> ah,
         var_history |-> vh,
         tilt_counter |-> counter,
         tilt_angle_deg |-> angle,
         smoothed_angle |-> smoothed,
         is_tilted |-> IsTilted(counter),
         angle_variance |-> AngleVariance(vh)]))))))

\* 1.0 - angle_variance
normalised_stability(h) == FSub(F1, h.angle_variance)

----------------------------------------------------------------------------
(* eye_contact.py: EyeContactDetector *)

EyeContactDetector_init ==
    [deviation_history |-> <<>>, contact_history |-> <<>>, deviation |-> F0,
     smoothed_deviation |-> F0, eye_contact |-> TRUE, contact_ratio |-> F1]

\* float(np.mean(contact_history)) of 0/1 entries: the integers are summed as
\* float64 and the sum divided by the count
ContactRatio(hist) == FDiv(F(Sum(hist)), F(Len(hist)))

EyeContactDetector_update(g, lm) ==
    With(nose_face_deviation(lm), LAMBDA dev:
    With(DequeAppend(g.deviation_history, FAbs(dev), SMOOTHING_WINDOW), LAMBDA dh:
    With(np_mean(dh), LAMBDA smoothed:
    With(FLeq(smoothed, Milli(EYE_CONTACT_NOSE_TOLERANCE)), LAMBDA contact:
    With(DequeAppend(g.contact_history, IF contact THEN 1 ELSE 0, ENGAGEMENT_WINDOW),
         LAMBDA ch:
        [deviation_history |-> dh,
         contact_history |-> ch,
         deviation |-> dev,
         smoothed_deviation |-> smoothed,
         eye_contact |-> contact,
         contact_ratio |-> ContactRatio(ch)])))))

\* 1.0 - contact_ratio
gaze_loss_score(g) == FSub(F1, g.contact_ratio)

----------------------------------------------------------------------------
(* gesture.py: GestureDetector *)

GestureDetector_init ==
    [x_history |-> <<>>, y_history |-> <<>>, head_nod |-> FALSE, head_shake |-> FALSE,
     nod_cooldown |-> 0, shake_cooldown |-> 0]

\* np.array(history, dtype=np.float32)
Float32Array(history) == [i \in 1..Len(history) |-> ToF32(history[i])]

\* np.diff(arr) of a float32 array
Diff(arr) == [i \in 1..(Len(arr) - 1) |-> FSubP(arr[i + 1], arr[i], P32)]

\* int(np.sum(signs[1:] != signs[:-1])) for a sequence of non-zero deltas
SignChanges(d) == Cardinality({i \in 1..(Len(d) - 1) : d[i].neg # d[i + 1].neg})

\* delta[np.abs(delta) < deadzone] = 0.0 and delta = delta[delta != 0.0]: the
\* differences that stay; the deadzone is compared as a float32
DeltaKept(x, deadzone) == ~FLess(FAbs(x), ToF32(deadzone)) /\ x.m # <<>>

_count_oscillations(history, deadzone) ==
    IF Len(history) < 3 THEN 0
    ELSE LET kept(x) == DeltaKept(x, deadzone) IN
         With(SelectSeq(Diff(Float32Array(history)), kept), LAMBDA delta:
             IF Len(delta) < 2 THEN 0 ELSE SignChanges(delta) \div 2)

\* if cooldown > 0: cooldown -= 1
CooldownTick_Fast(c) == IF c > 1 THEN c - 2 ELSE 0
CooldownTick(c) == IF c > 0 THEN c - 1 ELSE c

\* oscillation count meets the threshold and the gesture is not in cooldown
GestureFires_NoCooldown(osc, needed, cooldown) == osc >= needed
GestureFires(osc, needed, cooldown) == osc >= needed /\ cooldown = 0

\* one cooldown shared by the two gestures
GestureDetector_update_Coupled(g, lm) ==
    With(nose_position_normalised(lm), LAMBDA pos:
    With(DequeAppend(g.x_history, pos[1], GESTURE_WINDOW), LAMBDA xh:
    With(DequeAppend(g.y_history, pos[2], GESTURE_WINDOW), LAMBDA yh:
    With(CooldownTick(g.nod_cooldown), LAMBDA nod_cd:
    With(CooldownTick(g.shake_cooldown), LAMBDA shake_cd:
    With(_count_oscillations(yh, Milli(GESTURE_DEADZONE)), LAMBDA vert_osc:
    With(_count_oscillations(xh, Milli(GESTURE_DEADZONE)), LAMBDA horiz_osc:
    With(GestureFires(vert_osc, NOD_OSCILLATIONS, nod_cd), LAMBDA nod:
    With(GestureFires(horiz_osc, SHAKE_OSCILLATIONS, shake_cd), LAMBDA shake:
        [x_history |-> xh, y_history |-> yh,
         head_nod |-> nod, head_shake |-> shake,
         nod_cooldown |-> IF nod \/ shake THEN COOLDOWN ELSE nod_cd,
         shake_cooldown |-> IF nod \/ shake THEN COOLDOWN ELSE shake_cd])))))))))

GestureDetector_update(g, lm) ==
    With(nose_position_normalised(lm), LAMBDA pos:
    With(DequeAppend(g.x_history, pos[1], GESTURE_WINDOW), LAMBDA xh:
    With(DequeAppend(g.y_history, pos[2], GESTURE_WINDOW), LAMBDA yh:
    With(CooldownTick(g.nod_cooldown), LAMBDA nod_cd:
    With(CooldownTick(g.shake_cooldown), LAMBDA shake_cd:
    With(_count_oscillations(yh, Milli(GESTURE_DEADZONE)), LAMBDA vert_osc:
    With(_count_oscillations(xh, Milli(GESTURE_DEADZONE)), LAMBDA horiz_osc:
    With(GestureFires(vert_osc, NOD_OSCILLATIONS, nod_cd), LAMBDA nod:
    With(GestureFires(horiz_osc, SHAKE_OSCILLATIONS, shake_cd), LAMBDA shake:
        [x_history |-> xh, y_history |-> yh,
         head_nod |-> nod, head_shake |-> shake,
         nod_cooldown |-> IF nod THEN COOLDOWN ELSE nod_cd,
         shake_cooldown |-> IF shake THEN COOLDOWN ELSE shake_cd])))))))))

----------------------------------------------------------------------------
(* confusion.py: ConfusionScorer *)

ConfusionScorer_init == [score |-> 0]

\* piecewise linear: 0.0 at or below LOW, 1.0 at or above HIGH, else
\* (blinks_per_minute - low) / (high - low)
_blink_rate_signal(blinks_per_minute) ==
    IF FLeq(blinks_per_minute, F(BLINK_RATE_LOW)) THEN F0
    ELSE IF FLeq(F(BLINK_RATE_HIGH), blinks_per_minute) THEN F1
    ELSE FDiv(FSub(blinks_per_minute, F(BLINK_RATE_LOW)),
              F(BLINK_RATE_HIGH - BLINK_RATE_LOW))

\* min(float(x), 1.0)
_head_variance_signal(angle_variance) == FMin(angle_variance, F1)
_gaze_loss_signal(gaze_loss) == FMin(gaze_loss, F1)
_micro_movement_signal(micro_variance) == FMin(micro_variance, F1)

\* raw: the weighted sum of the four sub-signals, added left to right
ConfusionRaw(blink_sig, head_sig, gaze_sig, micro_sig) ==
    LET w == CONFUSION_WEIGHTS
    IN  FAdd(FAdd(FAdd(FMul(Weight(w.blink_rate), blink_sig),
                       FMul(Weight(w.head_variance), head_sig)),
                  FMul(Weight(w.gaze_reduction), gaze_sig)),
             FMul(Weight(w.micro_movement), micro_sig))

\* round(min(raw * 100.0, 100.0), 1), in tenths of a point
ConfusionScore(raw) == With(FMin(FMul(raw, F(100)), F(100)), LAMBDA x: Round1(x))

\* compute: self.score is assigned the new score, which is also returned;
\* s is the scorer instance (self) as the call finds it
ConfusionScorer_compute_NoMicro(s, blinks_per_minute, head_angle_variance, gaze_loss, micro_movement) ==
    With(ConfusionRaw(_blink_rate_signal(blinks_per_minute),
                      _head_variance_signal(head_angle_variance),
                      _gaze_loss_signal(gaze_loss), F0),
         LAMBDA raw: [s EXCEPT !.score = ConfusionScore(raw)])
ConfusionScorer_compute_Sticky(s, blinks_per_minute, head_angle_variance, gaze_loss, micro_movement) ==
    With(ConfusionRaw(_blink_rate_signal(blinks_per_minute),
                      _head_variance_signal(head_angle_variance),
                      _gaze_loss_signal(gaze_loss),
                      _micro_movement_signal(micro_movement)),
         LAMBDA raw: [s EXCEPT !.score = Max(s.score, ConfusionScore(raw))])
ConfusionScorer_compute(s, blinks_per_minute, head_angle_variance, gaze_loss, micro_movement) ==
    With(ConfusionRaw(_blink_rate_signal(blinks_per_minute),
                      _head_variance_signal(head_angle_variance),
                      _gaze_loss_signal(gaze_loss),
                      _micro_movement_signal(micro_movement)),
         LAMBDA raw: [s EXCEPT !.score = ConfusionScore(raw)])

----------------------------------------------------------------------------
(* engagement.py: EngagementScorer *)

EngagementScorer_init == [score_history |-> <<>>, score |-> 500, raw_score |-> 500]

\* w.eye_openness * ear_normalised + w.head_stability * head_stability +
\* w.eye_contact * contact_ratio, added left to right
EngagementPositive(ear_normalised, head_stability, contact_ratio) ==
    LET w == ENGAGEMENT_WEIGHTS
    IN  FAdd(FAdd(FMul(Weight(w.eye_openness), ear_normalised),
                  FMul(Weight(w.head_stability), head_stability)),
             FMul(Weight(w.eye_contact), contact_ratio))

\* raw = max(0.0, min(positive - penalty, 1.0)); the confusion score comes in
\* tenths, confusion_norm = confusion_score / 100.0
EngagementRaw_NoFloor(ear_normalised, head_stability, contact_ratio, confusion_score) ==
    LET w == ENGAGEMENT_WEIGHTS IN
    With(FDiv(Tenths(confusion_score), F(100)), LAMBDA confusion_norm:
    With(EngagementPositive(ear_normalised, head_stability, contact_ratio), LAMBDA positive:
    With(FMul(Weight(w.confusion_penalty), confusion_norm), LAMBDA penalty:
        FMin(FSub(positive, penalty), F1))))
EngagementRaw_FullScale(ear_normalised, head_stability, contact_ratio, confusion_score) ==
    LET w == ENGAGEMENT_WEIGHTS IN
    With(Weight(w.eye_openness + w.head_stability + w.eye_contact), LAMBDA total:
    With(FDiv(Tenths(confusion_score), F(100)), LAMBDA confusion_norm:
    With(EngagementPositive(FDiv(ear_normalised, total),
                            FDiv(head_stability, total),
                            FDiv(contact_ratio, total)), LAMBDA positive:
    With(FMul(Weight(w.confusion_penalty), confusion_norm), LAMBDA penalty:
        FMax(F0, FMin(FSub(positive, penalty), F1))))))
EngagementRaw(ear_normalised, head_stability, contact_ratio, confusion_score) ==
    LET w == ENGAGEMENT_WEIGHTS IN
    With(FDiv(Tenths(confusion_score), F(100)), LAMBDA confusion_norm:
    With(EngagementPositive(ear_normalised, head_stability, contact_ratio), LAMBDA positive:
    With(FMul(Weight(w.confusion_penalty), confusion_norm), LAMBDA penalty:
        FMax(F0, FMin(FSub(positive, penalty), F1)))))

\* round(raw * 100.0, 1), in tenths of a point
RawScore(raw) == With(FMul(raw, F(100)), LAMBDA x: Round1(x))

\* the float64 array of the score history
ScoreArray(hist) == [i \in 1..Len(hist) |-> Tenths(hist[i])]

\* raw_score = round(raw * 100.0, 1), then
\* score = round(float(np.mean(score_history)), 1)
EngagementScorer_compute(s, ear_normalised, head_stability, contact_ratio, confusion_score) ==
    With(RawScore(EngagementRaw(ear_normalised, head_stability, contact_ratio,
                                confusion_score)), LAMBDA raw_score:
    With(DequeAppend(s.score_history, raw_score, ENGAGEMENT_WINDOW), LAMBDA hist:
        [score_history |-> hist,
         score |-> With(np_mean(ScoreArray(hist)), LAMBDA mean: Round1(mean)),
         raw_score |-> raw_score]))

----------------------------------------------------------------------------
(* pipeline.py: EngagementResult and EngagementPipeline *)

EngagementResult(frame_number) ==
    [frame_number |-> frame_number, face_detected |-> FALSE,
     fps |-> 0, inference_ms |-> 0,
     ear_left |-> F0, ear_right |-> F0, ear_avg |-> F0,
     is_blinking |-> FALSE, is_sleeping |-> FALSE,
     blink_count |-> 0, blinks_per_minute |-> F0,
     tilt_angle_deg |-> F0, is_tilted |-> FALSE,
     eye_contact |-> TRUE, contact_ratio |-> F1,
     confusion_score |-> 0, engagement_score |-> 500,
     head_nod |-> FALSE, head_shake |-> FALSE]

\* frame_times is the _frame_times buffer, clock readings in milliseconds.
\* micro_var is the local of process_frame, kept as last computed.  The
\* SessionLogger is held as the frame numbers of the rows handed to write_row
\* (logged, the file object's buffer included), the number of them the file
\* on disk holds (on_disk: write_row flushes at every 30th row, close() at
\* the end), and whether close() was called
EngagementPipeline_init ==
    [frame_number |-> 0, frame_times |-> <<>>,
     nose_x_history |-> <<>>, nose_y_history |-> <<>>, micro_var |-> F0,
     logged |-> <<>>, on_disk |-> 0, closed |-> FALSE]

\* pipeline.py: _frame_times = deque(maxlen=30)
FRAME_TIMES_MAXLEN == 30

\* time.perf_counter(): a clock reading, taken in whole milliseconds, as the
\* float of seconds the code holds
Clock(t) == Milli(t)

\* the clock of a run at a steady pace: a call every FramePeriod
\* milliseconds, t_infer InferenceTime after t_start
FramePeriod == 33
InferenceTime == 15
SteadyStart(o) == FramePeriod * o.pipe.frame_number
SteadyInfer(o) == SteadyStart(o) + InferenceTime

\* (len(frame_times) - 1) / max(elapsed, 1e-6) rounded to one decimal, in
\* tenths: count readings after the first, elapsed = last - first
FpsOver(count, first, last) ==
    Round1(FDiv(F(count), FMax(FSub(Clock(last), Clock(first)), Micro(1))))

\* (t_infer - t_start) * 1000 rounded to one decimal, in tenths
InferenceMsOver(t_start, t_infer) ==
    Round1(FMul(FSub(Clock(t_infer), Clock(t_start)), F(1000)))

\* the readings of the steady clock over its first frames, as count, first
\* and last reading of the window held and as t_start and t_infer of a call,
\* with their fps and inference_ms kept in tables
SteadyFrames == 1..(4 * FRAME_TIMES_MAXLEN)
SteadyFirst(n) == Max(n - (FRAME_TIMES_MAXLEN - 1), 0)
SteadyWindows ==
    {<<n - SteadyFirst(n), FramePeriod * SteadyFirst(n), FramePeriod * n>> : n \in SteadyFrames}
SteadyFps == [w \in SteadyWindows |-> FpsOver(w[1], w[2], w[3])]
SteadySpans ==
    {<<FramePeriod * n, FramePeriod * n + InferenceTime>> : n \in {0} \cup SteadyFrames}
SteadyInferenceMs == [c \in SteadySpans |-> InferenceMsOver(c[1], c[2])]

\* fps = round((len(frame_times) - 1) / max(elapsed, 1e-6), 1) once two
\* readings are held, elapsed = frame_times[-1] - frame_times[0]; in tenths
FpsOfWindow(w) == IF w \in SteadyWindows THEN SteadyFps[w] ELSE FpsOver(w[1], w[2], w[3])
Fps(frame_times) ==
    IF Len(frame_times) < 2 THEN 0
    ELSE FpsOfWindow(<<Len(frame_times) - 1, frame_times[1], frame_times[Len(frame_times)]>>)

\* inference_ms = round((t_infer - t_start) * 1000, 1), in tenths
InferenceMs(t_start, t_infer) ==
    IF <<t_start, t_infer>> \in SteadySpans THEN SteadyInferenceMs[<<t_start, t_infer>>]
    ELSE InferenceMsOver(t_start, t_infer)

\* logger.py: flush() every 30 rows
LOG_FLUSH_ROWS == 30

\* SessionLogger.write_row: the rows and the part of them on disk afterwards
write_row(p, frame_number) ==
    LET rows == Append(p.logged, frame_number)
    IN  [logged |-> rows,
         on_disk |-> IF Len(rows) % LOG_FLUSH_ROWS = 0 THEN Len(rows) ELSE p.on_disk]

\* micro_var = 0.0, and with more than one sample
\* min((vx + vy) / (2.0 * MICRO_MOVE_HIGH), 1.0)
MicroVar(xh, yh) ==
    IF Len(xh) <= 1 THEN F0
    ELSE With(np_var(xh), LAMBDA vx:
         With(np_var(yh), LAMBDA vy:
             FMin(FDiv(FAdd(vx, vy), FMul(F(2), Micro(MICRO_MOVE_HIGH))), F1)))

\* self._logger and self._frame_number % cfg.LOG_INTERVAL_FRAMES == 0, the
\* logger being there (log_csv=True)
LogDue(frame_number) == frame_number % LOG_INTERVAL_FRAMES = 0

\* the pipeline with its detectors and scorers, as one value
Objects ==
    [ear |-> ear, head |-> head, gaze |-> gaze, gest |-> gest, conf |-> conf,
     eng |-> eng, pipe |-> pipe, result |-> result]

\* process_frame, lines 148-151: t_start is read, the frame is counted and
\* the result object is created with its defaults
process_begin(o) ==
    [o EXCEPT !.pipe.frame_number = @ + 1,
              !.result = EngagementResult(o.pipe.frame_number + 1)]

\* process_frame, lines 154-167: t_start is appended to _frame_times, fps is
\* assigned, the landmarker runs, t_infer is read and inference_ms is
\* assigned; o is the pipeline after process_begin
process_timing(o, t_start, t_infer) ==
    [o EXCEPT !.pipe.frame_times = DequeAppend(@, t_start, FRAME_TIMES_MAXLEN),
              !.result.fps = Fps(DequeAppend(o.pipe.frame_times, t_start, FRAME_TIMES_MAXLEN)),
              !.result.inference_ms = InferenceMs(t_start, t_infer)]

\* process_frame up to the face check: t_start is read, the frame is counted,
\* the result object is created with its defaults, t_start is appended to
\* _frame_times, fps is assigned, the landmarker runs, t_infer is read and
\* inference_ms is assigned
process_start_Paced(o, t_start, t_infer) ==
    LET late == o.pipe.frame_times # <<>>
                /\ t_start - o.pipe.frame_times[Len(o.pipe.frame_times)] > FramePeriod
        frame_number == o.pipe.frame_number + (IF late THEN 2 ELSE 1)
        frame_times == DequeAppend(o.pipe.frame_times, t_start, FRAME_TIMES_MAXLEN)
    IN  [o EXCEPT !.pipe.frame_number = frame_number,
                  !.pipe.frame_times = frame_times,
                  !.result = [EngagementResult(frame_number) EXCEPT
                                 !.fps = Fps(frame_times),
                                 !.inference_ms = InferenceMs(t_start, t_infer)]]
process_start(o, t_start, t_infer) == process_timing(process_begin(o), t_start, t_infer)

\* process_frame when detection.face_landmarks is empty: the result as it
\* stands is returned before any detector is called; o is the pipeline
\* after process_start
process_noface_TouchEar(o) ==
    [o EXCEPT !.result.face_detected = FALSE, !.ear = EARDetector_init]
process_noface_NoCount(o) ==
    [o EXCEPT !.result.face_detected = FALSE,
              !.pipe.frame_number = @ - 1, !.result.frame_number = @ - 1]
process_noface_CarryEar(o) ==
    [o EXCEPT !.result.face_detected = FALSE, !.result.ear_avg = o.ear.ear_avg]
process_noface(o) ==
    [o EXCEPT !.result.face_detected = FALSE]

\* process_frame on a frame with a face: the four detectors, micro-movement,
\* the confusion score, the engagement score, the fields of the result; o is
\* the pipeline after process_start
process_face(o, lm) ==
    With([ear |-> EARDetector_update(o.ear, lm),
          head |-> HeadPoseDetector_update(o.head, lm),
          gaze |-> EyeContactDetector_update(o.gaze, lm),
          gest |-> GestureDetector_update(o.gest, lm),
          nose |-> nose_position_normalised(lm)], LAMBDA d:
    LET frame_number == o.pipe.frame_number
        e == d.ear
        h == d.head
        g == d.gaze
        ge == d.gest
        xh == DequeAppend(o.pipe.nose_x_history, d.nose[1], CONFUSION_WINDOW)
        yh == DequeAppend(o.pipe.nose_y_history, d.nose[2], CONFUSION_WINDOW)
        log == IF LogDue(frame_number) THEN write_row(o.pipe, frame_number)
               ELSE [logged |-> o.pipe.logged, on_disk |-> o.pipe.on_disk]
    IN
    With([micro_var |-> MicroVar(xh, yh), gaze_loss |-> gaze_loss_score(g),
          ear_normalised |-> normalised_ear(e),
          head_stability |-> normalised_stability(h)], LAMBDA a:
    LET micro_var == a.micro_var IN
    With(ConfusionScorer_compute(o.conf, e.blinks_per_minute, h.angle_variance,
                                 a.gaze_loss, micro_var), LAMBDA scorer:
    LET confusion == scorer.score IN
    With(EngagementScorer_compute(o.eng, a.ear_normalised, a.head_stability,
                                  g.contact_ratio, confusion), LAMBDA en:
        [ear |-> e, head |-> h, gaze |-> g, gest |-> ge,
         conf |-> scorer,
         eng |-> en,
         pipe |-> [frame_number |-> frame_number, frame_times |-> o.pipe.frame_times,
                   nose_x_history |-> xh,
                   nose_y_history |-> yh, micro_var |-> micro_var,
                   logged |-> log.logged, on_disk |-> log.on_disk,
                   closed |-> o.pipe.closed],
         result |-> [frame_number |-> frame_number, face_detected |-> TRUE,
                     fps |-> o.result.fps, inference_ms |-> o.result.inference_ms,
                     ear_left |-> e.ear_left, ear_right |-> e.ear_right,
                     ear_avg |-> e.ear_avg,
                     is_blinking |-> e.is_blinking, is_sleeping |-> e.is_sleeping,
                     blink_count |-> e.total_blinks,
                     blinks_per_minute |-> e.blinks_per_minute,
                     tilt_angle_deg |-> h.tilt_angle_deg, is_tilted |-> h.is_tilted,
                     eye_contact |-> g.eye_contact, contact_ratio |-> g.contact_ratio,
                     confusion_score |-> confusion, engagement_score |-> en.score,
                     head_nod |-> ge.head_nod, head_shake |-> ge.head_shake]]))))

\* process_frame from the face check on; frame.face says whether the
\* landmarker found a face
process_rest(o, frame) ==
    IF frame.face THEN process_face(o, frame.lm) ELSE process_noface(o)

\* EngagementPipeline.process_frame; t_start and t_infer are the two clock
\* readings of the call, in milliseconds
process_frame(o, frame, t_start, t_infer) ==
    process_rest(process_start(o, t_start, t_infer), frame)


\* EngagementPipeline.close (also __exit__): the landmarker is released and
\* SessionLogger.close flushes and closes the file
EngagementPipeline_close(o) ==
    [o EXCEPT !.pipe.closed = TRUE, !.pipe.on_disk = Len(o.pipe.logged)]

----------------------------------------------------------------------------
(* landmark frames used as inputs *)

\* face box 200 px wide and 300 px high
Eye(va, vb, h) == [va |-> va, vb |-> vb, h |-> h]

Landmarks(left_eye, right_eye, eye_dy, nose_x, nose_y) ==
    [left_eye |-> left_eye, right_eye |-> right_eye, eye_dx |-> 100, eye_dy |-> eye_dy,
     nose_x |-> nose_x, nose_y |-> nose_y,
     left_x |-> 200, right_x |-> 400, top_y |-> 100, bot_y |-> 400]

\* eyes open (EAR 0.30 / 0.36), level head, nose centred
LmOpen == Landmarks(Eye(15, 15, 50), Eye(18, 18, 50), 0, 300, 250)
\* eyes shut (EAR 0), head rolled 45 degrees, nose far off to the right
LmShutTilted == Landmarks(Eye(0, 0, 50), Eye(0, 0, 50), 100, 350, 250)
\* eyes shut, level head, nose off to the right and lower
LmShutAway == Landmarks(Eye(0, 0, 50), Eye(0, 0, 50), 0, 330, 256)
\* eyes half closed (EAR 0.175), level head, nose centred
LmNarrow == Landmarks(Eye(7, 7, 40), Eye(7, 7, 40), 0, 300, 250)
\* eyes closed (EAR 0.10), level head, nose centred
LmClosed == Landmarks(Eye(5, 5, 50), Eye(5, 5, 50), 0, 300, 250)

\* eyes open, head rolled 45 degrees the other way, nose centred
LmTiltedLeft == Landmarks(Eye(15, 15, 50), Eye(18, 18, 50), 0 - 100, 300, 250)

\* eyes open, level head, nose 6 px lower (ny 0.52) or 4 px to the right (nx 0.52)
LmNoseDown == Landmarks(Eye(15, 15, 50), Eye(18, 18, 50), 0, 300, 256)
LmNoseRight == Landmarks(Eye(15, 15, 50), Eye(18, 18, 50), 0, 304, 250)

NoFace == [face |-> FALSE]
Face(lm) == [face |-> TRUE, lm |-> lm]

----------------------------------------------------------------------------
(* observers: what a test harness measures around the calls *)

ObsEar_init ==
    [rawRun |-> 0, rawClosed |-> 0, rawOpen |-> 0, rawClosures |-> 0, rawBlinks0 |-> 0,
     smRun |-> 0, smClosed |-> 0, smEnd |-> 0, smBlinks0 |-> 0,
     rawSleepRun |-> 0, smSleepRun |-> 0, wasSleeping |-> FALSE]

\* e is the detector before the update, e2 after it
\*   rawRun      consecutive frames, up to now, with ear_avg < EAR_THRESHOLD
\*   rawClosed   length of the last such run that has ended; rawOpen frames since
\*   rawClosures number of such runs begun; rawBlinks0 total_blinks before the last began
\*   smRun, smClosed, smBlinks0: the same for the smoothed EAR; smEnd the frame
\*               number of the update that ended the last smoothed run
\*   rawSleepRun, smSleepRun: runs below SLEEP_EAR_THRESHOLD, raw and smoothed
\*   wasSleeping is_sleeping before the update
ObsEar_next(o, e, e2) ==
    With(FLess(e2.ear_avg, Milli(EAR_THRESHOLD)), LAMBDA rawBelow:
    With(SmoothBelow(e2.ear_history, EAR_THRESHOLD), LAMBDA smBelow:
        [rawRun |-> IF rawBelow THEN o.rawRun + 1 ELSE 0,
         rawClosed |-> IF ~rawBelow /\ o.rawRun > 0 THEN o.rawRun ELSE o.rawClosed,
         rawOpen |-> IF rawBelow THEN 0 ELSE o.rawOpen + 1,
         rawClosures |-> IF rawBelow /\ o.rawRun = 0 THEN o.rawClosures + 1
                         ELSE o.rawClosures,
         rawBlinks0 |-> IF rawBelow /\ o.rawRun = 0 THEN e.total_blinks ELSE o.rawBlinks0,
         smRun |-> IF smBelow THEN o.smRun + 1 ELSE 0,
         smClosed |-> IF ~smBelow /\ o.smRun > 0 THEN o.smRun ELSE o.smClosed,
         smEnd |-> IF ~smBelow /\ o.smRun > 0 THEN e2.current_frame ELSE o.smEnd,
         smBlinks0 |-> IF smBelow /\ o.smRun = 0 THEN e.total_blinks ELSE o.smBlinks0,
         rawSleepRun |-> IF FLess(e2.ear_avg, Milli(SLEEP_EAR_THRESHOLD))
                         THEN o.rawSleepRun + 1 ELSE 0,
         smSleepRun |-> IF SmoothBelow(e2.ear_history, SLEEP_EAR_THRESHOLD)
                        THEN o.smSleepRun + 1 ELSE 0,
         wasSleeping |-> e.is_sleeping]))

ObsGest_init ==
    [prevNod |-> FALSE, prevShake |-> FALSE, prevNodCd |-> 0, prevShakeCd |-> 0,
     sinceNod |-> -1, sinceShake |-> -1, nodFires |-> 0, shakeFires |-> 0]

\*   prevNod, prevShake, prevNodCd, prevShakeCd: flags and cooldowns before the update
\*   sinceNod, sinceShake: updates made since the last update before this one on
\*     which the flag was true (-1: none); the flag of this update does not enter
\*   nodFires, shakeFires: number of updates on which the flag was true
ObsGest_next(o, g, g2) ==
    [prevNod |-> g.head_nod, prevShake |-> g.head_shake,
     prevNodCd |-> g.nod_cooldown, prevShakeCd |-> g.shake_cooldown,
     sinceNod |-> IF g.head_nod THEN 1
                  ELSE IF o.sinceNod >= 1 THEN o.sinceNod + 1 ELSE -1,
     sinceShake |-> IF g.head_shake THEN 1
                    ELSE IF o.sinceShake >= 1 THEN o.sinceShake + 1 ELSE -1,
     nodFires |-> IF g2.head_nod THEN o.nodFires + 1 ELSE o.nodFires,
     shakeFires |-> IF g2.head_shake THEN o.shakeFires + 1 ELSE o.shakeFires]

----------------------------------------------------------------------------
(* Spec: the pipeline, one process_frame per step *)

MaxFrames == 5

PipelineFrames == {Face(LmOpen), Face(LmShutTilted), Face(LmShutAway), Face(LmNarrow), NoFace}

\* the state of every detector and of the orchestrator's histories
DetectorState ==
    [ear |-> ear, head |-> head, gaze |-> gaze, gest |-> gest, eng |-> eng,
     nose_x_history |-> pipe.nose_x_history, nose_y_history |-> pipe.nose_y_history]

Fresh ==
    /\ ear = EARDetector_init
    /\ head = HeadPoseDetector_init
    /\ gaze = EyeContactDetector_init
    /\ gest = GestureDetector_init
    /\ conf = ConfusionScorer_init
    /\ eng = EngagementScorer_init
    /\ pipe = EngagementPipeline_init
    /\ result = EngagementResult(0)
    /\ obsEar = ObsEar_init
    /\ obsGest = ObsGest_init

Init ==
    /\ Fresh
    /\ sched = [missRun |-> 0, before |-> <<>>, prevBlinks |-> 0, calls |-> 0]
    /\ twin = <<>>
    /\ srv = <<>>
    /\ cfg = DefaultConfig

Install(o) ==
    /\ ear' = o.ear
    /\ head' = o.head
    /\ gaze' = o.gaze
    /\ gest' = o.gest
    /\ conf' = o.conf
    /\ eng' = o.eng
    /\ pipe' = o.pipe
    /\ result' = o.result

\* sched.missRun counts the no-face frames of the current run, sched.before is
\* the detector state when the run began, sched.prevBlinks the blink_count of
\* the result published by the previous process_frame, sched.calls the number
\* of calls of process_frame made so far
ProcessFrame ==
    \E frame \in PipelineFrames :
        /\ pipe.frame_number < MaxFrames
        /\ Install(process_frame(Objects, frame, SteadyStart(Objects), SteadyInfer(Objects)))
        /\ obsEar' = IF frame.face THEN ObsEar_next(obsEar, ear, ear') ELSE obsEar
        /\ obsGest' = IF frame.face THEN ObsGest_next(obsGest, gest, gest') ELSE obsGest
        /\ sched' = IF frame.face
                    THEN [missRun |-> 0, before |-> <<>>,
                          prevBlinks |-> result.blink_count,
                          calls |-> sched.calls + 1]
                    ELSE [missRun |-> sched.missRun + 1,
                          before |-> IF sched.missRun = 0 THEN DetectorState
                                     ELSE sched.before,
                          prevBlinks |-> result.blink_count,
                          calls |-> sched.calls + 1]
        /\ UNCHANGED <<twin, srv, cfg>>

Next == ProcessFrame

Spec == Init /\ [][Next]_vars

\* C1: over a run of one or more no-face frames every detector's counters,
\* buffers and published attributes, the engagement history and the nose
\* histories stay as they were before the run
C1_NoFaceLeavesDetectors == sched.missRun >= 1 => DetectorState = sched.before

\* a second no-face frame in a row, after frames with a face filled the detectors
C1_Witness ==
    /\ sched.missRun >= 2
    /\ ear.current_frame >= 2
    /\ ear.ear_history # <<>>
    /\ gest.y_history # <<>>
    /\ ~result.face_detected

\* C9: the confusion score and the engagement score of every published
\* result lie in [0,100] (tenths of a point: 0..1000)
C9_ScoresInRange ==
    /\ result.confusion_score >= 0 /\ result.confusion_score <= 1000
    /\ result.engagement_score >= 0 /\ result.engagement_score <= 1000

\* a frame whose penalty exceeds its positive signals (the raw score is
\* floored at 0) while the confusion score is above 50
C9_Witness ==
    /\ result.face_detected
    /\ result.confusion_score > 500
    /\ eng.raw_score = 0
    /\ result.engagement_score < 500

\* C10: after every detector update every normalised sub-signal lies in [0,1]
C10_SubSignalsInRange ==
    /\ InUnit(normalised_ear(ear))
    /\ InUnit(head.angle_variance)
    /\ InUnit(normalised_stability(head))
    /\ InUnit(gaze.contact_ratio)
    /\ InUnit(gaze_loss_score(gaze))
    /\ InUnit(pipe.micro_var)

\* the clamps are active: wide-open eyes, angle variance above 50 deg^2 and
\* nose variance above the micro-movement reference
C10_Witness ==
    /\ result.face_detected
    /\ FLess(Milli(EAR_FULLY_OPEN), ear.ear_avg)
    /\ FLess(F(HEAD_VAR_SCALE), np_var(head.var_history))
    /\ head.angle_variance = F1
    /\ pipe.micro_var = F1
    /\ FLess(F0, gaze.contact_ratio) /\ FLess(gaze.contact_ratio, F1)

\* C11: the blink_count of each published result is at least the blink_count
\* of the result published before it, whatever mix of face and no-face frames
C11_BlinkCountMonotone == result.blink_count >= sched.prevBlinks

\* C16: the result of a no-face frame is the construction default in every
\* detector-derived field and carries the frame-sequence metadata only: the
\* frame number and the two timing fields
C16_NoFaceResultDefault ==
    ~result.face_detected =>
        [result EXCEPT !.fps = 0, !.inference_ms = 0] = EngagementResult(pipe.frame_number)

\* a no-face frame after a blink was counted, with the detectors off their
\* construction values
C16_Witness ==
    /\ ~result.face_detected
    /\ pipe.frame_number >= 1
    /\ ear.total_blinks >= 1
    /\ FLess(F0, ear.ear_avg)
    /\ eng.score # 500
    /\ result.blink_count = 0

\* C23: the n-th call of process_frame returns a result with frame_number = n,
\* face or no face
C23_FrameNumberCountsCalls == result.frame_number = sched.calls

\* a frame with a face after a no-face frame after a frame with a face
C23_Witness ==
    /\ sched.calls >= 3
    /\ result.face_detected
    /\ result.frame_number = sched.calls
    /\ ear.current_frame >= 2
    /\ ear.current_frame < sched.calls

----------------------------------------------------------------------------
(* SpecConfig: the program is started with a configuration whose weight    *)
(* maps may be anything the config module holds; the pipeline is           *)
(* constructed and process_frame is called as in Spec.  Neither config.py  *)
(* nor EngagementPipeline.__init__ checks the maps.                        *)

\* the shipped maps, a confusion map summing to 1.2 and an engagement map
\* summing to 0.9
Configs ==
    {DefaultConfig,
     [DefaultConfig EXCEPT !.CONFUSION_WEIGHTS.blink_rate = 45],
     [DefaultConfig EXCEPT !.ENGAGEMENT_WEIGHTS.eye_contact = 20]}

WeightSum(w) ==
    LET keys == DOMAIN w
        RECURSIVE Add(_)
        Add(ks) == IF ks = {} THEN 0
                   ELSE LET k == CHOOSE x \in ks : TRUE IN w[k] + Add(ks \ {k})
    IN  Add(keys)

InitConfig ==
    /\ Fresh
    /\ sched = [missRun |-> 0, before |-> <<>>, prevBlinks |-> 0, calls |-> 0]
    /\ twin = <<>>
    /\ srv = <<>>
    /\ cfg \in Configs

SpecConfig == InitConfig /\ [][Next]_vars

\* C17: no frame is ever processed under a configuration whose confusion or
\* engagement weight map does not sum to 1.0
C17_InvalidConfigNeverRuns ==
    pipe.frame_number > 0 =>
        /\ WeightSum(cfg.CONFUSION_WEIGHTS) = 100
        /\ WeightSum(cfg.ENGAGEMENT_WEIGHTS) = 100

----------------------------------------------------------------------------
(* SpecEAR: EARDetector.update called on its own, any EAR signal *)

MaxFramesEAR == 15

EarFrames == {LmClosed, LmOpen}

InitEAR ==
    /\ Fresh
    /\ sched = <<>>
    /\ twin = <<>>
    /\ srv = <<>>
    /\ cfg = DefaultConfig

EarUpdate ==
    \E lm \in EarFrames :
        /\ ear.current_frame < MaxFramesEAR
        /\ ear' = EARDetector_update(ear, lm)
        /\ obsEar' = ObsEar_next(obsEar, ear, ear')
        /\ UNCHANGED <<head, gaze, gest, conf, eng, pipe, result, obsGest, sched, twin, srv, cfg>>

NextEAR == EarUpdate

SpecEAR == InitEAR /\ [][NextEAR]_vars

\* C2 as stated: the per-frame average EAR was below EAR_THRESHOLD for exactly
\* EAR_CONSEC_FRAMES - 1 frames (the only closure so far) and has been above
\* since: no blink has been recorded
C2_RawShortClosureNoBlink ==
    (obsEar.rawClosures = 1 /\ obsEar.rawRun = 0
        /\ obsEar.rawClosed = EAR_CONSEC_FRAMES - 1)
    => ear.total_blinks = obsEar.rawBlinks0

\* C2 amended: the smoothed EAR was below EAR_THRESHOLD for exactly
\* EAR_CONSEC_FRAMES - 1 consecutive updates and has been at or above it
\* since: no blink has been recorded for that closure, on the update that
\* ended it or on a later one
C2_SmoothShortClosureNoBlink ==
    (obsEar.smRun = 0 /\ obsEar.smClosed = EAR_CONSEC_FRAMES - 1)
    => ear.total_blinks = obsEar.smBlinks0

\* a smoothed closure of exactly EAR_CONSEC_FRAMES - 1 updates has ended and
\* open-eye updates followed
C2_Witness ==
    /\ obsEar.smRun = 0
    /\ obsEar.smClosed = EAR_CONSEC_FRAMES - 1
    /\ ear.current_frame > obsEar.smEnd
    /\ ~ear.is_blinking

\* C3 as stated: the per-frame average EAR was below EAR_THRESHOLD for exactly
\* EAR_CONSEC_FRAMES frames (the only closure so far) and has stayed above for
\* a full smoothing window: exactly one blink has been recorded
C3_RawClosureOneBlink ==
    (obsEar.rawClosures = 1 /\ obsEar.rawRun = 0
        /\ obsEar.rawClosed = EAR_CONSEC_FRAMES
        /\ obsEar.rawOpen >= SMOOTHING_WINDOW)
    => ear.total_blinks = obsEar.rawBlinks0 + 1

\* C3 amended: the smoothed EAR was below EAR_THRESHOLD for exactly
\* EAR_CONSEC_FRAMES consecutive updates and has been at or above it since:
\* exactly one blink has been recorded for that closure, and the frame number
\* of the update that ended it is in the blink record once (while it is
\* inside the blink window)
C3_SmoothClosureOneBlink ==
    (obsEar.smRun = 0 /\ obsEar.smClosed = EAR_CONSEC_FRAMES)
    => /\ ear.total_blinks = obsEar.smBlinks0 + 1
       /\ (ear.current_frame - obsEar.smEnd <= BLINK_WINDOW
            => Cardinality({i \in 1..Len(ear.blink_frames) :
                              ear.blink_frames[i] = obsEar.smEnd}) = 1)

\* a smoothed closure of exactly EAR_CONSEC_FRAMES updates has ended, its
\* blink is counted, and open-eye updates followed
C3_Witness ==
    /\ obsEar.smRun = 0
    /\ obsEar.smClosed = EAR_CONSEC_FRAMES
    /\ ear.current_frame > obsEar.smEnd
    /\ ear.total_blinks >= 1
    /\ FLess(F0, ear.blinks_per_minute)

----------------------------------------------------------------------------
(* SpecSleep: EARDetector.update over long closures.  The EAR signal is any  *)
(* signal for up to WarmFrames frames, then one level held for up to        *)
(* HoldFrames frames, then, once the level was held for SLEEP_CONSEC_FRAMES *)
(* - 1 frames or more, any signal for up to TailFrames frames.              *)

WarmFrames == 3
HoldFrames == 151
TailFrames == 5

InitSleep ==
    /\ Fresh
    /\ sched = [phase |-> "warm", n |-> 0, last |-> LmOpen]
    /\ twin = <<>>
    /\ srv = <<>>
    /\ cfg = DefaultConfig

SleepStep(lm, phase, n) ==
    /\ ear' = EARDetector_update(ear, lm)
    /\ obsEar' = ObsEar_next(obsEar, ear, ear')
    /\ sched' = [phase |-> phase, n |-> n, last |-> lm]
    /\ UNCHANGED <<head, gaze, gest, conf, eng, pipe, result, obsGest, twin, srv, cfg>>

SleepWarm ==
    /\ sched.phase = "warm"
    /\ sched.n < WarmFrames
    /\ \E lm \in EarFrames : SleepStep(lm, "warm", sched.n + 1)

SleepHoldBegin ==
    /\ sched.phase = "warm"
    /\ \E lm \in EarFrames : SleepStep(lm, "hold", 1)

SleepHold ==
    /\ sched.phase = "hold"
    /\ sched.n < HoldFrames
    /\ SleepStep(sched.last, "hold", sched.n + 1)

SleepTail ==
    /\ sched.phase \in {"hold", "tail"}
    /\ sched.phase = "hold" => sched.n >= SLEEP_CONSEC_FRAMES - 1
    /\ (IF sched.phase = "tail" THEN sched.n ELSE 0) < TailFrames
    /\ \E lm \in EarFrames :
          SleepStep(lm, "tail", (IF sched.phase = "tail" THEN sched.n ELSE 0) + 1)

NextSleep == SleepWarm \/ SleepHoldBegin \/ SleepHold \/ SleepTail

SpecSleep == InitSleep /\ [][NextSleep]_vars

\* C4 as stated: in a run of frames whose average EAR is below
\* SLEEP_EAR_THRESHOLD, is_sleeping is true on the SLEEP_CONSEC_FRAMES-th
\* frame of the run and on no earlier frame of it
C4_RawRunSleepOnFrame ==
    /\ obsEar.rawSleepRun = SLEEP_CONSEC_FRAMES => ear.is_sleeping
    /\ (obsEar.rawSleepRun >= 1 /\ obsEar.rawSleepRun < SLEEP_CONSEC_FRAMES)
          => ~ear.is_sleeping

\* C4 amended: in a run of updates whose smoothed EAR is below
\* SLEEP_EAR_THRESHOLD, is_sleeping is true on the SLEEP_CONSEC_FRAMES-th
\* update of the run and on no earlier update of it
C4_SmoothRunSleepOnFrame ==
    /\ obsEar.smSleepRun = SLEEP_CONSEC_FRAMES => ear.is_sleeping
    /\ (obsEar.smSleepRun >= 1 /\ obsEar.smSleepRun < SLEEP_CONSEC_FRAMES)
          => ~ear.is_sleeping

\* the SLEEP_CONSEC_FRAMES-th update of a smoothed run: asleep now, not before
C4_Witness ==
    /\ obsEar.smSleepRun = SLEEP_CONSEC_FRAMES
    /\ ear.is_sleeping
    /\ ~obsEar.wasSleeping

\* C5 as stated: a frame whose average EAR is above SLEEP_EAR_THRESHOLD,
\* processed while is_sleeping was true, leaves is_sleeping false
C5_RawRiseClearsSleep ==
    (obsEar.wasSleeping /\ FLess(Milli(SLEEP_EAR_THRESHOLD), ear.ear_avg))
    => ~ear.is_sleeping

\* C5 amended: an update on which the smoothed EAR is above (or at)
\* SLEEP_EAR_THRESHOLD, made while is_sleeping was true, leaves is_sleeping
\* false: one such update is enough
C5_SmoothRiseClearsSleep ==
    (obsEar.wasSleeping /\ ~SmoothBelow(ear.ear_history, SLEEP_EAR_THRESHOLD))
    => ~ear.is_sleeping

\* asleep before the update, smoothed EAR at or above the threshold on it
C5_Witness ==
    /\ obsEar.wasSleeping
    /\ ~SmoothBelow(ear.ear_history, SLEEP_EAR_THRESHOLD)
    /\ ~ear.is_sleeping
    /\ ear.sleep_counter = 0

\* C33: after every EARDetector.update, is_sleeping is true exactly when the
\* sleep counter is at least SLEEP_CONSEC_FRAMES, and the sleep counter is the
\* length of the current run of consecutive updates whose smoothed EAR was
\* below SLEEP_EAR_THRESHOLD (0 when the latest update was not below it)
C33_SleepFlagIsCounter ==
    /\ ear.is_sleeping <=> (ear.sleep_counter >= SLEEP_CONSEC_FRAMES)
    /\ ear.sleep_counter = obsEar.smSleepRun
    /\ (ear.current_frame > 0 /\ ~SmoothBelow(ear.ear_history, SLEEP_EAR_THRESHOLD))
          => ear.sleep_counter = 0

\* a run one update short of the limit, not yet asleep, after an earlier run
\* that was reset (the counter is below the number of updates made)
C33_Witness ==
    /\ obsEar.smSleepRun = SLEEP_CONSEC_FRAMES - 1
    /\ ear.sleep_counter = SLEEP_CONSEC_FRAMES - 1
    /\ ~ear.is_sleeping
    /\ ear.current_frame > SLEEP_CONSEC_FRAMES

\* C35: total_blinks increases by at most 1 per update, and only on an update
\* on which the smoothed EAR is at or above EAR_THRESHOLD directly after a run
\* of at least EAR_CONSEC_FRAMES updates below it; a closure of any length,
\* sleep-length ones included, counts as exactly one blink, at reopening
C35_OneBlinkPerClosure ==
    [][/\ ear'.total_blinks \in {ear.total_blinks, ear.total_blinks + 1}
       /\ (ear'.total_blinks = ear.total_blinks + 1)
            <=> (/\ ~SmoothBelow(ear'.ear_history, EAR_THRESHOLD)
                 /\ obsEar.smRun >= EAR_CONSEC_FRAMES)
       /\ obsEar'.smRun > 0 => ear'.total_blinks = obsEar'.smBlinks0
       /\ (obsEar'.smRun = 0 /\ obsEar'.smClosed >= EAR_CONSEC_FRAMES)
            => ear'.total_blinks = obsEar'.smBlinks0 + 1]_vars

\* a closure long enough to have raised is_sleeping has ended on this update
\* and is counted as one blink
C35_Witness ==
    /\ obsEar.smRun = 0
    /\ obsEar.smClosed >= SLEEP_CONSEC_FRAMES
    /\ obsEar.smEnd = ear.current_frame
    /\ ~ear.is_blinking
    /\ ear.total_blinks = obsEar.smBlinks0 + 1

\* C39: after every EARDetector.update the sleep counter is at most the blink
\* counter, is_blinking is true exactly when the blink counter is positive,
\* and is_sleeping implies is_blinking (SLEEP_EAR_THRESHOLD <= EAR_THRESHOLD)
C39_SleepWithinBlink ==
    /\ SLEEP_EAR_THRESHOLD <= EAR_THRESHOLD
    /\ ear.sleep_counter <= ear.blink_counter
    /\ ear.is_blinking <=> (ear.blink_counter > 0)
    /\ ear.is_sleeping => ear.is_blinking

\* asleep, in a closure that began before the smoothed EAR went below the
\* sleep threshold: the two counters differ
C39_Witness ==
    /\ ear.is_sleeping
    /\ ear.is_blinking
    /\ ear.sleep_counter >= SLEEP_CONSEC_FRAMES
    /\ ear.sleep_counter < ear.blink_counter

----------------------------------------------------------------------------
(* SpecTilt: HeadPoseDetector.update called on its own.  The head angle is  *)
(* any signal for up to TiltWarmFrames frames, then one angle held for up   *)
(* to TiltHoldFrames frames, then, once the angle was held for              *)
(* TILT_CONSEC_FRAMES - 1 frames or more, any signal for up to              *)
(* TiltTailFrames frames.  sched.run is the observed run of updates with    *)
(* the smoothed angle beyond the threshold, sched.wasTilted is_tilted       *)
(* before the update.                                                       *)

TiltWarmFrames == 2
TiltHoldFrames == 92
TiltTailFrames == 4

TiltFrames == {LmOpen, LmShutTilted, LmTiltedLeft}

InitTilt ==
    /\ Fresh
    /\ sched = [phase |-> "warm", n |-> 0, last |-> LmOpen, run |-> 0,
                wasTilted |-> FALSE]
    /\ twin = <<>>
    /\ srv = <<>>
    /\ cfg = DefaultConfig

TiltStep(lm, phase, n) ==
    /\ head' = HeadPoseDetector_update(head, lm)
    /\ sched' = [phase |-> phase, n |-> n, last |-> lm,
                 run |-> IF SmoothTilted(head'.angle_history) THEN sched.run + 1 ELSE 0,
                 wasTilted |-> head.is_tilted]
    /\ UNCHANGED <<ear, gaze, gest, conf, eng, pipe, result, obsEar, obsGest, twin, srv, cfg>>

TiltWarm ==
    /\ sched.phase = "warm"
    /\ sched.n < TiltWarmFrames
    /\ \E lm \in TiltFrames : TiltStep(lm, "warm", sched.n + 1)

TiltHoldBegin ==
    /\ sched.phase = "warm"
    /\ \E lm \in TiltFrames : TiltStep(lm, "hold", 1)

TiltHold ==
    /\ sched.phase = "hold"
    /\ sched.n < TiltHoldFrames
    /\ TiltStep(sched.last, "hold", sched.n + 1)

TiltTail ==
    /\ sched.phase \in {"hold", "tail"}
    /\ sched.phase = "hold" => sched.n >= TILT_CONSEC_FRAMES - 1
    /\ (IF sched.phase = "tail" THEN sched.n ELSE 0) < TiltTailFrames
    /\ \E lm \in TiltFrames :
          TiltStep(lm, "tail", (IF sched.phase = "tail" THEN sched.n ELSE 0) + 1)

NextTilt == TiltWarm \/ TiltHoldBegin \/ TiltHold \/ TiltTail

SpecTilt == InitTilt /\ [][NextTilt]_vars

\* C34: after every HeadPoseDetector.update, is_tilted is true exactly when
\* the tilt counter is at least TILT_CONSEC_FRAMES, and the tilt counter is
\* the length of the current run of consecutive updates whose smoothed angle
\* exceeded TILT_THRESHOLD_DEG in magnitude; a single update with the smoothed
\* angle at or below the threshold resets the counter to 0 and clears is_tilted
C34_TiltFlagIsCounter ==
    /\ head.is_tilted <=> (head.tilt_counter >= TILT_CONSEC_FRAMES)
    /\ head.tilt_counter = sched.run
    /\ (sched.n > 0 /\ ~SmoothTilted(head.angle_history))
          => (head.tilt_counter = 0 /\ ~head.is_tilted)

\* tilted before the update, smoothed angle back within the threshold on it:
\* the counter is 0 and the flag cleared
C34_Witness ==
    /\ sched.wasTilted
    /\ ~SmoothTilted(head.angle_history)
    /\ head.tilt_counter = 0
    /\ ~head.is_tilted

----------------------------------------------------------------------------
(* SpecGesture: GestureDetector.update called on its own.  The nose moves    *)
(* freely for up to BurstFrames frames; then it either stays where it is    *)
(* ("still") or keeps repeating its last two positions ("alt"), for up to   *)
(* ContFrames frames.                                                       *)

BurstFrames == 6
ContFrames == 20

GestureFrames == {LmOpen, LmNoseDown, LmNoseRight}

InitGesture ==
    /\ Fresh
    /\ sched = [phase |-> "burst", n |-> 0, last |-> LmOpen, prev |-> LmOpen]
    /\ twin = <<>>
    /\ srv = <<>>
    /\ cfg = DefaultConfig

GestureStep(lm, phase, n) ==
    /\ gest' = GestureDetector_update(gest, lm)
    /\ obsGest' = ObsGest_next(obsGest, gest, gest')
    /\ sched' = [phase |-> phase, n |-> n, last |-> lm, prev |-> sched.last]
    /\ UNCHANGED <<ear, head, gaze, conf, eng, pipe, result, obsEar, twin, srv, cfg>>

GestureBurst ==
    /\ sched.phase = "burst"
    /\ sched.n < BurstFrames
    /\ \E lm \in GestureFrames : GestureStep(lm, "burst", sched.n + 1)

GestureStill ==
    /\ \/ sched.phase = "burst" /\ sched.n >= 1
       \/ sched.phase = "still" /\ sched.n < ContFrames
    /\ GestureStep(sched.last, "still", IF sched.phase = "still" THEN sched.n + 1 ELSE 1)

GestureAlt ==
    /\ \/ sched.phase = "burst" /\ sched.n >= 2
       \/ sched.phase = "alt" /\ sched.n < ContFrames
    /\ GestureStep(sched.prev, "alt", IF sched.phase = "alt" THEN sched.n + 1 ELSE 1)

NextGesture == GestureBurst \/ GestureStill \/ GestureAlt

SpecGesture == InitGesture /\ [][NextGesture]_vars

\* SpecCooldown: the same, the free movement lasting up to ShortBurstFrames
\* frames (a gesture then fires while the nose repeats its last two positions)
ShortBurstFrames == 4

GestureShortBurst ==
    /\ sched.phase = "burst"
    /\ sched.n < ShortBurstFrames
    /\ \E lm \in GestureFrames : GestureStep(lm, "burst", sched.n + 1)

NextCooldown == GestureShortBurst \/ GestureStill \/ GestureAlt

SpecCooldown == InitGesture /\ [][NextCooldown]_vars

\* C6: a gesture flag is true only when its oscillation count meets its
\* threshold and its cooldown is 0 after the update's decrement, and a flag
\* is never true on two consecutive updates
C6_FireNeedsCountAndCooldown ==
    /\ gest.head_nod =>
          /\ _count_oscillations(gest.y_history, Milli(GESTURE_DEADZONE)) >= NOD_OSCILLATIONS
          /\ CooldownTick(obsGest.prevNodCd) = 0
    /\ gest.head_shake =>
          /\ _count_oscillations(gest.x_history, Milli(GESTURE_DEADZONE)) >= SHAKE_OSCILLATIONS
          /\ CooldownTick(obsGest.prevShakeCd) = 0
    /\ ~(gest.head_nod /\ obsGest.prevNod)
    /\ ~(gest.head_shake /\ obsGest.prevShake)

\* the update right after a nod fired: the count still qualifies, the flag is false
C6_Witness ==
    /\ obsGest.prevNod
    /\ ~gest.head_nod
    /\ _count_oscillations(gest.y_history, Milli(GESTURE_DEADZONE)) >= NOD_OSCILLATIONS
    /\ gest.nod_cooldown = COOLDOWN - 1

\* C7: on each of the COOLDOWN - 1 updates after a flag was true the flag is false
C7_QuietDuringCooldown ==
    /\ (obsGest.sinceNod >= 1 /\ obsGest.sinceNod <= COOLDOWN - 1) => ~gest.head_nod
    /\ (obsGest.sinceShake >= 1 /\ obsGest.sinceShake <= COOLDOWN - 1) => ~gest.head_shake

\* the (COOLDOWN - 1)-th update after a nod, the nod pattern still going on
C7_Witness ==
    /\ obsGest.sinceNod = COOLDOWN - 1
    /\ sched.phase = "alt"
    /\ sched.last # sched.prev
    /\ _count_oscillations(gest.y_history, Milli(GESTURE_DEADZONE)) >= NOD_OSCILLATIONS
    /\ ~gest.head_nod

\* C8: after one burst followed by a still nose each flag has been true on at
\* most one update in total
C8_OneFirePerBurst ==
    sched.phase = "still" => (obsGest.nodFires <= 1 /\ obsGest.shakeFires <= 1)

\* other histories (none, an oscillation in full swing) and other nose
\* positions (px) for the axis a gesture does not read
OtherHistories == {<<>>, MilliSeq(<<500, 520, 500, 520, 500, 520>>)}
OtherNose == {304, 250}

----------------------------------------------------------------------------
(* SpecOsc: GestureDetector._count_oscillations as a function of its        *)
(* arguments.  The history grows by one position per step, up to MaxOscLen  *)
(* entries, and the function is applied to it with a deadzone fixed at the  *)
(* start.  Next to the result, sched keeps a count made one difference at a *)
(* time on the positions as given, in thousandths: kept is the number of    *)
(* differences whose magnitude is not below the deadzone (and not 0), sign  *)
(* the sign of the last of them and flips the number of them whose sign     *)
(* differs from the one before.                                             *)

MaxOscLen == 6

\* positions in thousandths: differences of 2, 3 and 5 (inside the deadzone),
\* of 8 (the deadzone itself), and of 10, 20, 25, 28, 30
OscValues == {490, 492, 495, 500, 520}
OscDeadzones == {0, GESTURE_DEADZONE}

InitOsc ==
    /\ Fresh
    /\ \E dz \in OscDeadzones :
          sched = [history |-> <<>>, deadzone |-> dz, count |-> 0,
                   kept |-> 0, sign |-> 0, flips |-> 0]
    /\ twin = <<>>
    /\ srv = <<>>
    /\ cfg = DefaultConfig

\* a difference of two positions, in thousandths, that is not removed:
\* its magnitude is not below the deadzone, and it is not 0
DifferenceStays(d, deadzone) == Abs(d) >= deadzone /\ d # 0

OscCount ==
    \E v \in OscValues :
        LET h == sched.history
            d == IF Len(h) = 0 THEN 0 ELSE v - h[Len(h)]
            survives == DifferenceStays(d, sched.deadzone)
            sgn == IF d < 0 THEN -1 ELSE 1
        IN  /\ Len(h) < MaxOscLen
            /\ sched' = [history |-> Append(h, v),
                         deadzone |-> sched.deadzone,
                         count |-> _count_oscillations(MilliSeq(Append(h, v)),
                                                       Milli(sched.deadzone)),
                         kept |-> IF survives THEN sched.kept + 1 ELSE sched.kept,
                         sign |-> IF survives THEN sgn ELSE sched.sign,
                         flips |-> IF survives /\ sched.sign # 0 /\ sgn # sched.sign
                                   THEN sched.flips + 1 ELSE sched.flips]
            /\ UNCHANGED <<ear, head, gaze, gest, conf, eng, pipe, result,
                           obsEar, obsGest, twin, srv, cfg>>

NextOsc == OscCount

SpecOsc == InitOsc /\ [][NextOsc]_vars

\* C36: _count_oscillations returns floor(f / 2), where f is the number of
\* adjacent sign changes in the sequence of consecutive differences of the
\* history after the differences with magnitude below the deadzone (and the
\* zero ones) are removed; it returns 0 when the history has fewer than 3
\* entries or fewer than 2 differences survive.  The differences are those
\* of the positions handed in (0.500 - 0.492 is 0.008, the deadzone itself,
\* and stays); the function takes them in float32, where 0.5 - 0.492 is
\* 0.00799998641, below float32(0.008) = 0.00800000038
C36_OscillationsAreHalfFlips ==
    /\ sched.count = sched.flips \div 2
    /\ Len(sched.history) < 3 => sched.count = 0
    /\ sched.kept < 2 => sched.count = 0

----------------------------------------------------------------------------
(* SpecConfusion: ConfusionScorer.compute called directly, on either of two *)
(* scorer instances, with inputs over and at the ends of their ranges       *)

MaxCalls == 4

ConfIn(blinks_per_minute, head_angle_variance, gaze_loss, micro_movement) ==
    [blinks_per_minute |-> blinks_per_minute, head_angle_variance |-> head_angle_variance,
     gaze_loss |-> gaze_loss, micro_movement |-> micro_movement]

\* the four inputs of a call, the blink rate in blinks per minute and the
\* three sub-signals on the grid of One: all at their minimum (blink rate at and below
\* the low bound), all at their maximum (blink rate at and above the high
\* bound), all in between, two mixed ones, and two with an input outside
\* [0, 1] (a gaze loss of -0.5, a head variance of 2.0)
ConfInputs ==
    {ConfIn(BLINK_RATE_LOW, 0, 0, 0),
     ConfIn(0, 0, 0, 0),
     ConfIn(BLINK_RATE_HIGH, One, One, One),
     ConfIn(2 * BLINK_RATE_HIGH, One, One, One),
     ConfIn((BLINK_RATE_LOW + BLINK_RATE_HIGH) \div 2, One \div 2, One \div 4, One \div 2),
     ConfIn(BLINK_RATE_LOW, One, 0, One),
     ConfIn(2 * BLINK_RATE_HIGH, 0, One, 0),
     ConfIn(BLINK_RATE_HIGH, 0, 0, 0),
     ConfIn(BLINK_RATE_LOW, 0, 0 - (One \div 2), 0),
     ConfIn(BLINK_RATE_LOW, 2 * One, 0, 0)}

\* conf is the first scorer instance, sched.other the second; sched.last is
\* the latest call (instance, the score the instance held when called, inputs,
\* returned score), sched.ref an earlier call kept for comparison,
\* sched.between the calls made since sched.ref
InitConfusion ==
    /\ Fresh
    /\ sched = [calls |-> 0, other |-> ConfusionScorer_init,
                last |-> <<>>, ref |-> <<>>, between |-> 0]
    /\ twin = <<>>
    /\ srv = <<>>
    /\ cfg = DefaultConfig

\* the call compute(in) made on s, instance k, which leaves the instance as after
ConfCall(k, s, in, keep, after) ==
    LET call == [instance |-> k, held |-> s.score, in |-> in, score |-> after.score]
    IN  /\ conf' = IF k = 1 THEN after ELSE conf
        /\ sched' = [calls |-> sched.calls + 1,
                     other |-> IF k = 2 THEN after ELSE sched.other,
                     last |-> call,
                     ref |-> IF keep THEN call ELSE sched.ref,
                     between |-> IF keep THEN 0
                                 ELSE IF sched.ref # <<>> THEN sched.between + 1
                                 ELSE 0]
        /\ UNCHANGED <<ear, head, gaze, gest, eng, pipe, result, obsEar, obsGest,
                       twin, srv, cfg>>

\* compute on the first scorer instance
ConfCompute ==
    /\ sched.calls < MaxCalls
    /\ \E in \in ConfInputs :
          \E after \in {ConfusionScorer_compute(conf, F(in.blinks_per_minute),
                                               Sig(in.head_angle_variance),
                                               Sig(in.gaze_loss), Sig(in.micro_movement))} :
             \E keep \in BOOLEAN : ConfCall(1, conf, in, keep, after)

\* compute on another scorer instance
ConfComputeOther ==
    /\ sched.calls < MaxCalls
    /\ \E in \in ConfInputs :
          \E after \in {ConfusionScorer_compute(sched.other, F(in.blinks_per_minute),
                                               Sig(in.head_angle_variance),
                                               Sig(in.gaze_loss), Sig(in.micro_movement))} :
             \E keep \in BOOLEAN : ConfCall(2, sched.other, in, keep, after)

NextConfusion == ConfCompute \/ ConfComputeOther

SpecConfusion == InitConfusion /\ [][NextConfusion]_vars

\* C12: compute returns 0 for (blink rate = BLINK_RATE_LOW, 0, 0, 0) and 100
\* for (blink rate >= BLINK_RATE_HIGH, 1.0, 1.0, 1.0)
C12_ConfusionEndpoints ==
    sched.last # <<>> =>
        LET in == sched.last.in
        IN  /\ (in.blinks_per_minute = BLINK_RATE_LOW /\ in.head_angle_variance = 0
                /\ in.gaze_loss = 0 /\ in.micro_movement = 0)
                   => sched.last.score = 0
            /\ (in.blinks_per_minute >= BLINK_RATE_HIGH /\ in.head_angle_variance = One
                /\ in.gaze_loss = One /\ in.micro_movement = One)
                   => sched.last.score = 1000

\* a call with every input at its maximum and the blink rate above the high
\* bound, right after a call that returned a score strictly in between
C12_Witness ==
    /\ sched.last # <<>>
    /\ sched.last.in.blinks_per_minute > BLINK_RATE_HIGH
    /\ sched.last.in.head_angle_variance = One
    /\ sched.last.in.gaze_loss = One
    /\ sched.last.in.micro_movement = One
    /\ sched.last.score = 1000
    /\ sched.ref # <<>> /\ sched.ref.score > 0 /\ sched.ref.score < 1000

\* C13: a call returns the score an earlier call with the same four inputs
\* returned, whatever calls were made in between, on whichever instance the
\* two calls were made and whatever score the instance held when called
C13_ConfusionPure ==
    (sched.last # <<>> /\ sched.ref # <<>> /\ sched.last.in = sched.ref.in)
        => sched.last.score = sched.ref.score

\* the same inputs again on the same instance, which held the score of a
\* fresh scorer at the first call and a higher score, left by a call with
\* other inputs, at the second; the other instance holds yet another score
C13_Witness ==
    /\ sched.last # <<>> /\ sched.ref # <<>>
    /\ sched.between >= 2
    /\ sched.last.in = sched.ref.in
    /\ sched.last.instance = sched.ref.instance
    /\ sched.last.instance = 1
    /\ sched.ref.held = 0
    /\ sched.last.held > sched.last.score
    /\ sched.last.score = sched.ref.score
    /\ sched.last.score > 0
    /\ sched.last.score < 500
    /\ sched.other.score = 1000

----------------------------------------------------------------------------
(* SpecEngagement: EngagementScorer.compute called directly; some calls    *)
(* with any inputs, then one input repeated                                *)

PreCalls == 2
ExtraCalls == 2

EngIn(ear_normalised, head_stability, contact_ratio, confusion_score) ==
    [ear_normalised |-> ear_normalised, head_stability |-> head_stability,
     contact_ratio |-> contact_ratio, confusion_score |-> confusion_score]

\* the three sub-signals on the grid of One and the confusion score in
\* tenths: raw scores 85.0, 0.0, 50.5 and 52.0
EngInputs ==
    {EngIn(One, One, One, 0),
     EngIn(0, 0, 0, 1000),
     EngIn(One \div 2, One, One \div 2, 300),
     EngIn(One \div 4, One, (3 * One) \div 4, 200)}

\* sched.phase is "fill" while the inputs vary and "repeat" once one input is
\* repeated; sched.n counts the calls of the phase; sched.lagged says that the
\* smoothed score differed from the raw score on an earlier call of the repeat
InitEngagement ==
    /\ Fresh
    /\ sched = [phase |-> "fill", n |-> 0, in |-> <<>>, lagged |-> FALSE]
    /\ twin = <<>>
    /\ srv = <<>>
    /\ cfg = DefaultConfig

EngCall(phase, n, in) ==
    /\ eng' = EngagementScorer_compute(eng, Sig(in.ear_normalised), Sig(in.head_stability),
                                       Sig(in.contact_ratio), in.confusion_score)
    /\ sched' = [phase |-> phase, n |-> n, in |-> in,
                 lagged |-> phase = "repeat"
                            /\ (sched.lagged \/ eng'.score # eng'.raw_score)]
    /\ UNCHANGED <<ear, head, gaze, gest, conf, pipe, result, obsEar, obsGest,
                   twin, srv, cfg>>

EngFill ==
    \E in \in EngInputs :
        /\ sched.phase = "fill"
        /\ sched.n < PreCalls
        /\ EngCall("fill", sched.n + 1, in)

EngRepeatBegin ==
    \E in \in EngInputs :
        /\ sched.phase = "fill"
        /\ EngCall("repeat", 1, in)

EngRepeat ==
    /\ sched.phase = "repeat"
    /\ sched.n < ENGAGEMENT_WINDOW + ExtraCalls
    /\ EngCall("repeat", sched.n + 1, sched.in)

NextEngagement == EngFill \/ EngRepeatBegin \/ EngRepeat

SpecEngagement == InitEngagement /\ [][NextEngagement]_vars

\* C14: once the same input has been given ENGAGEMENT_WINDOW times in a row,
\* whatever the buffer held before, the published score equals the raw score
\* of that input, and stays equal while the input is repeated
C14_SmoothedConverges ==
    (sched.phase = "repeat" /\ sched.n >= ENGAGEMENT_WINDOW) =>
        /\ eng.score = eng.raw_score
        /\ eng.raw_score =
               RawScore(EngagementRaw(Sig(sched.in.ear_normalised),
                                      Sig(sched.in.head_stability),
                                      Sig(sched.in.contact_ratio),
                                      sched.in.confusion_score))

\* the ENGAGEMENT_WINDOW-th call of the repeat, the score having lagged behind
\* the raw value on earlier calls of the repeat
C14_Witness ==
    /\ sched.phase = "repeat"
    /\ sched.n = ENGAGEMENT_WINDOW
    /\ sched.lagged
    /\ Len(eng.score_history) = ENGAGEMENT_WINDOW
    /\ eng.score = eng.raw_score

\* sub-signal levels and confusion scores (tenths) spanning the input ranges
EngLevels == {0, One \div 4, One \div 2, One}
EngConfusions == {0, 300, 1000}

\* 100 * (w_eye_openness + w_head_stability + w_eye_contact), in tenths
EngagementCeiling ==
    10 * (ENGAGEMENT_WEIGHTS.eye_openness + ENGAGEMENT_WEIGHTS.head_stability
          + ENGAGEMENT_WEIGHTS.eye_contact)

\* C37: for inputs in range, the raw and the published engagement score never
\* exceed 100 * (w_eye_openness + w_head_stability + w_eye_contact), 85.0 with
\* the shipped weights, so that 100 is never produced; the raw score of every
\* input of the grid EngLevels x EngConfusions, which does not depend on the
\* state, is computed once, before the first call
C37_EngagementBelowCeiling ==
    /\ EngagementCeiling = 850
    /\ eng.raw_score <= EngagementCeiling
    /\ eng.score <= EngagementCeiling
    /\ sched.n = 0 =>
          \A a \in EngLevels, b \in EngLevels, c \in EngLevels, k \in EngConfusions :
             RawScore(EngagementRaw(Sig(a), Sig(b), Sig(c), k)) <= EngagementCeiling

\* every sub-signal at 1 and no confusion, long enough for the published
\* score to reach the raw score: both are at the ceiling, 85.0
C37_Witness ==
    /\ sched.n >= 1
    /\ sched.in = EngIn(One, One, One, 0)
    /\ eng.raw_score = EngagementCeiling
    /\ eng.score = EngagementCeiling
    /\ eng.score < 1000

----------------------------------------------------------------------------
(* SpecTwin: two freshly constructed pipelines are fed the same frames,     *)
(* each at its own pace.  Each call of process_frame reads the clock twice  *)
(* (t_start, t_infer), keeps t_start in the pipeline's _frame_times and     *)
(* derives the fps and inference_ms fields of its result from the readings. *)

MaxFramesTwin == 3

\* milliseconds between two calls, and from t_start to t_infer
FramePeriods == {FramePeriod, 40}
InferenceTimes == {InferenceTime, 25}

TwinFrames == {Face(LmOpen), Face(LmNarrow), NoFace}

\* the objects a freshly constructed pipeline owns
FreshObjects ==
    [ear |-> EARDetector_init, head |-> HeadPoseDetector_init,
     gaze |-> EyeContactDetector_init, gest |-> GestureDetector_init,
     conf |-> ConfusionScorer_init, eng |-> EngagementScorer_init,
     pipe |-> EngagementPipeline_init, result |-> EngagementResult(0)]

\* the fields of a snapshot other than the two timing fields
Metrics(snap) == [f \in DOMAIN snap \ {"fps", "inference_ms"} |-> snap[f]]

\* the first pipeline is the one of the variables ear .. result, the second
\* is twin.objects; twin.snap[i] is the result pipeline i returned for the
\* latest frame
InitTwin ==
    /\ Fresh
    /\ sched = <<>>
    /\ twin = [objects |-> FreshObjects,
               snap |-> <<EngagementResult(0), EngagementResult(0)>>]
    /\ srv = <<>>
    /\ cfg = DefaultConfig

\* the clock reading t_start of a call: period ms after the previous one
Tick(times, period) == IF times = <<>> THEN 0 ELSE times[Len(times)] + period

\* both pipelines process the same frame, each with its own clock readings
TwinFrame ==
    /\ pipe.frame_number < MaxFramesTwin
    /\ \E frame \in TwinFrames :
          \E p1 \in FramePeriods, p2 \in FramePeriods,
             d1 \in InferenceTimes, d2 \in InferenceTimes :
          \E t1 \in {Tick(pipe.frame_times, p1)},
             t2 \in {Tick(twin.objects.pipe.frame_times, p2)} :
          \E o1 \in {process_frame(Objects, frame, t1, t1 + d1)},
             o2 \in {process_frame(twin.objects, frame, t2, t2 + d2)} :
              /\ Install(o1)
              /\ twin' = [objects |-> o2, snap |-> <<o1.result, o2.result>>]
    /\ UNCHANGED <<obsEar, obsGest, sched, srv, cfg>>

NextTwin == TwinFrame

SpecTwin == InitTwin /\ [][NextTwin]_vars

\* C15 as stated: the two pipelines return identical result snapshots, frame
\* by frame, every field of the result included
C15_SnapshotsIdentical == twin.snap[1] = twin.snap[2]

\* C15: the two pipelines return results that agree, frame by frame, in every
\* field other than fps and inference_ms, whatever the clock showed to either
\* of them on this frame and on the frames before
C15_MetricsIdentical == Metrics(twin.snap[1]) = Metrics(twin.snap[2])

\* the third frame of the sequence, with a face: the pipelines hold different
\* clock readings, the two results differ in both timing fields and agree in
\* metrics that are off their defaults
C15_Witness ==
    /\ pipe.frame_number >= 3
    /\ pipe.frame_times # twin.objects.pipe.frame_times
    /\ twin.snap[1].face_detected
    /\ twin.snap[1].is_blinking
    /\ twin.snap[1].fps # twin.snap[2].fps
    /\ twin.snap[1].inference_ms # twin.snap[2].inference_ms
    /\ twin.snap[1].engagement_score # 500
    /\ twin.snap[1].engagement_score = twin.snap[2].engagement_score

----------------------------------------------------------------------------
(* SpecServer, SpecSessions: api_server.py.  Capture workers                *)
(* (_capture_loop), one caller of session_start, one caller of              *)
(* session_stop, one reader of SharedState (session_status, all_metrics).   *)
(* Result objects live in srv.heap, keyed by identity: process_frame        *)
(* allocates a new EngagementResult, fills it in and returns it; the cell   *)
(* srv.cell (SharedState._result) and the reader hold references.           *)
(* srv.w[k] is the k-th thread started, with the locals of its              *)
(* _capture_loop (cap, pipeline, frame, result); srv.current is the one     *)
(* _capture_thread refers to.  SpecServer has one session, SpecSessions     *)
(* lets sessions be started again.                                          *)

MaxServerFrames == 2
MaxStarts == 2

ServerFrames == {Face(LmOpen), Face(LmNarrow), NoFace}

\* a thread not yet created; t_start is the clock reading process_frame took
\* at line 148, a local of the call
Worker_init ==
    [thread |-> "none", wpc |-> "idle", cap |-> "none", pipeline |-> "none",
     objects |-> <<>>, frame |-> NoFace, cur |-> 0, t_start |-> 0]

\* state = SharedState() at import, no thread, no capture device opened;
\* limit is the number of times a session is started, budget the number of
\* frames the capture device delivers in all, scene the frames it can deliver,
\* overlap whether a session_start and a session_stop request may be in
\* progress at the same time
SharedState_init(limit, budget, scene, overlap) ==
    [running |-> FALSE, error |-> "none", lock |-> "free", cell |-> 0,
     heap |-> (0 :> [val |-> EngagementResult(0), complete |-> TRUE]),
     stop |-> FALSE, current |-> 0, device |-> "ok", reads |-> 0,
     budget |-> budget, scene |-> scene, overlap |-> overlap,
     starts |-> 0, limit |-> limit, w |-> [k \in 1..limit |-> Worker_init],
     starter |-> "idle", caller |-> "idle", target |-> 0,
     reader |-> [pc |-> "idle", ref |-> 0, copy |-> EngagementResult(0),
                 seen |-> <<>>, at |-> <<>>, prev |-> <<>>]]

\* sched.skip is what a failed read found (the worker, its pipeline, the
\* cell), kept until that worker's next successful read; sched.afterStop[k]
\* counts the reads worker k has made since the stop event was last set;
\* sched.asked[k] counts the frames worker k has read since _stop_capture
\* first set the event with worker k alive (-1 before that)
InitServerWith(limit, budget, scene, overlap) ==
    /\ Fresh
    /\ sched = [skip |-> <<>>, afterStop |-> [k \in 1..limit |-> 0],
                asked |-> [k \in 1..limit |-> 0 - 1]]
    /\ twin = <<>>
    /\ srv = SharedState_init(limit, budget, scene, overlap)
    /\ cfg = DefaultConfig

InitServer == InitServerWith(1, MaxServerFrames, ServerFrames, TRUE)

PipelineUnchanged ==
    UNCHANGED <<ear, head, gaze, gest, conf, eng, pipe, result, obsEar, obsGest,
                sched, twin, cfg>>

\* the identity of the object EngagementResult(...) creates: a new one
Allocate_Reuse(s) == s.cell
Allocate(s) ==
    LET used == DOMAIN s.heap
    IN  (CHOOSE i \in used : \A j \in used : j <= i) + 1

\* _capture_thread.is_alive(), of the thread _capture_thread refers to
\* (None before the first session: no thread)
IsAlive(s) == s.current # 0 /\ s.w[s.current].thread = "alive"

\* session_start line 220 and _start_capture line 133: both return at once
\* when running is set.  Only this caller sets running, so the second test
\* finds what the first found
StartCheck ==
    /\ srv.starter = "idle"
    /\ srv.overlap \/ srv.caller \in {"idle", "returned", "raised"}
    /\ srv.starts < srv.limit
    /\ ~srv.running
    /\ srv' = [srv EXCEPT !.starter = "clear"]
    /\ PipelineUnchanged

\* _start_capture line 135: _stop_event.clear()
StartClear ==
    /\ srv.starter = "clear"
    /\ srv' = [srv EXCEPT !.stop = FALSE, !.starter = "error"]
    /\ sched' = [sched EXCEPT !.afterStop = [k \in DOMAIN srv.w |-> 0]]
    /\ UNCHANGED <<ear, head, gaze, gest, conf, eng, pipe, result, obsEar, obsGest,
                   twin, cfg>>

\* _start_capture line 136: state.error = None
StartError ==
    /\ srv.starter = "error"
    /\ srv' = [srv EXCEPT !.error = "none", !.starter = "running"]
    /\ PipelineUnchanged

\* _start_capture line 137: state.running = True
StartRunning ==
    /\ srv.starter = "running"
    /\ srv' = [srv EXCEPT !.running = TRUE, !.starter = "create"]
    /\ PipelineUnchanged

\* _start_capture line 138: _capture_thread = threading.Thread(...), a
\* thread that is not alive before it is started
StartCreate ==
    /\ srv.starter = "create"
    /\ LET k == srv.starts + 1
       IN  srv' = [srv EXCEPT !.current = k, !.starts = k,
                              !.w[k] = [Worker_init EXCEPT !.thread = "created"],
                              !.starter = "start"]
    /\ PipelineUnchanged

\* _start_capture line 139: _capture_thread.start(); session_start returns
StartThread ==
    /\ srv.starter = "start"
    /\ srv' = [srv EXCEPT !.w[srv.current].thread = "alive",
                          !.w[srv.current].wpc = "open",
                          !.starter = "idle"]
    /\ PipelineUnchanged

\* the capture device stops delivering: from now on it cannot be opened and
\* every read fails
DeviceLost ==
    /\ srv.device = "ok"
    /\ srv' = [srv EXCEPT !.device = "lost"]
    /\ PipelineUnchanged

\* _capture_loop lines 105-106 (and 111-113): cv2.VideoCapture, isOpened
WorkerOpen ==
    \E k \in DOMAIN srv.w :
        /\ srv.w[k].wpc = "open"
        /\ srv' = IF srv.device = "lost"
                  THEN [srv EXCEPT !.w[k].wpc = "unopened"]
                  ELSE [srv EXCEPT !.w[k].cap = "open", !.w[k].wpc = "enter"]
        /\ PipelineUnchanged

\* line 107: state.error = "Cannot open camera index ..."
WorkerOpenError ==
    \E k \in DOMAIN srv.w :
        /\ srv.w[k].wpc = "unopened"
        /\ srv' = [srv EXCEPT !.error = "camera", !.w[k].wpc = "unmark"]
        /\ PipelineUnchanged

\* line 108: state.running = False; line 109: return
WorkerOpenMark ==
    \E k \in DOMAIN srv.w :
        /\ srv.w[k].wpc = "unmark"
        /\ srv' = [srv EXCEPT !.running = FALSE, !.w[k].wpc = "return"]
        /\ PipelineUnchanged

\* line 116: with EngagementPipeline(log_csv=True) as pipeline; the
\* constructor may raise (model file missing)
WorkerEnter ==
    \E k \in DOMAIN srv.w :
        /\ srv.w[k].wpc = "enter"
        /\ \E ok \in BOOLEAN :
              srv' = IF ok THEN [srv EXCEPT !.w[k].pipeline = "open",
                                            !.w[k].objects = FreshObjects,
                                            !.w[k].wpc = "loop"]
                     ELSE [srv EXCEPT !.w[k].wpc = "except"]
        /\ PipelineUnchanged

\* lines 124-125: except Exception as e: state.error = str(e)
WorkerExcept ==
    \E k \in DOMAIN srv.w :
        /\ srv.w[k].wpc = "except"
        /\ srv' = [srv EXCEPT !.error = "exception", !.w[k].wpc = "finally"]
        /\ PipelineUnchanged

\* line 117: while not _stop_event.is_set(); leaving the loop leaves the
\* with block, whose __exit__ calls EngagementPipeline.close()
WorkerLoop_NoCheck ==
    \E k \in DOMAIN srv.w :
        /\ srv.w[k].wpc = "loop"
        /\ srv' = [srv EXCEPT !.w[k].wpc = "read"]
        /\ PipelineUnchanged
WorkerLoop ==
    \E k \in DOMAIN srv.w :
        /\ srv.w[k].wpc = "loop"
        /\ srv' = IF srv.stop
                  THEN [srv EXCEPT !.w[k].pipeline = "closed",
                                   !.w[k].objects = EngagementPipeline_close(@),
                                   !.w[k].wpc = "finally"]
                  ELSE [srv EXCEPT !.w[k].wpc = "read"]
        /\ PipelineUnchanged

\* lines 119-121: if not ok: time.sleep(0.01); continue
FailedRead_Process(s, k) == [s EXCEPT !.w[k].wpc = "build"]
FailedRead(s, k) == [s EXCEPT !.w[k].wpc = "sleep"]

\* line 118: ok, frame = cap.read(): a frame, or ok = False (always so once
\* the device is lost)
WorkerRead ==
    \E k \in DOMAIN srv.w :
        /\ srv.w[k].wpc = "read"
        /\ \E ok \in BOOLEAN :
              IF ok
              THEN /\ srv.device = "ok"
                   /\ srv.reads < srv.budget
                   /\ \E frame \in srv.scene :
                         srv' = [srv EXCEPT !.w[k].frame = frame, !.w[k].wpc = "build",
                                            !.reads = @ + 1]
                   /\ sched' = [skip |-> IF sched.skip # <<>> /\ sched.skip.k = k
                                         THEN <<>> ELSE sched.skip,
                                afterStop |-> IF srv.stop
                                              THEN [sched.afterStop EXCEPT ![k] = Min(@ + 1, 2)]
                                              ELSE sched.afterStop,
                                asked |-> IF sched.asked[k] >= 0
                                          THEN [sched.asked EXCEPT ![k] = Min(@ + 1, 2)]
                                          ELSE sched.asked]
              ELSE /\ srv' = FailedRead(srv, k)
                   /\ sched' = [skip |-> [k |-> k, objects |-> srv.w[k].objects,
                                          cell |-> srv.cell, val |-> srv.heap[srv.cell]],
                                afterStop |-> IF srv.stop
                                              THEN [sched.afterStop EXCEPT ![k] = Min(@ + 1, 2)]
                                              ELSE sched.afterStop,
                                asked |-> sched.asked]
        /\ UNCHANGED <<ear, head, gaze, gest, conf, eng, pipe, result, obsEar, obsGest,
                       twin, cfg>>

\* line 120: time.sleep(0.01); continue
WorkerSleep ==
    \E k \in DOMAIN srv.w :
        /\ srv.w[k].wpc = "sleep"
        /\ srv' = [srv EXCEPT !.w[k].wpc = "loop"]
        /\ PipelineUnchanged

\* line 122 into process_frame, pipeline.py 148-151: the clock is read, the
\* frame is counted and result = EngagementResult(frame_number=...) is a new
\* object holding the defaults
WorkerBuild ==
    \E k \in DOMAIN srv.w :
        /\ srv.w[k].wpc = "build"
        /\ LET id == Allocate(srv)
               o == process_begin(srv.w[k].objects)
           IN  srv' = [srv EXCEPT
                         !.w[k].t_start = SteadyStart(srv.w[k].objects),
                         !.w[k].objects = o,
                         !.w[k].cur = id,
                         !.heap = [i \in DOMAIN srv.heap \cup {id} |->
                                     IF i = id
                                     THEN [val |-> o.result, complete |-> FALSE]
                                     ELSE srv.heap[i]],
                         !.w[k].wpc = "fill"]
        /\ PipelineUnchanged

\* process_frame, pipeline.py 154-252: the timing fields, the detectors and
\* scorers; the fields of the result are assigned, the result is returned
WorkerFill ==
    \E k \in DOMAIN srv.w :
        /\ srv.w[k].wpc = "fill"
        /\ \E o \in {process_rest(process_timing(srv.w[k].objects, srv.w[k].t_start,
                                                 srv.w[k].t_start + InferenceTime),
                                  srv.w[k].frame)} :
               srv' = [srv EXCEPT !.w[k].objects = o,
                                  !.heap[srv.w[k].cur] = [val |-> o.result, complete |-> TRUE],
                                  !.w[k].wpc = "update"]
        /\ PipelineUnchanged

\* line 123, SharedState.update: with self._lock
WorkerUpdateLock ==
    \E k \in DOMAIN srv.w :
        /\ srv.w[k].wpc = "update"
        /\ srv.lock = "free"
        /\ srv' = [srv EXCEPT !.lock = "worker", !.w[k].wpc = "set"]
        /\ PipelineUnchanged

\* SharedState.update: self._result = result, lock released
WorkerUpdateSet ==
    \E k \in DOMAIN srv.w :
        /\ srv.w[k].wpc = "set"
        /\ srv' = [srv EXCEPT !.cell = srv.w[k].cur, !.lock = "free", !.w[k].wpc = "loop"]
        /\ PipelineUnchanged

\* line 127, finally: cap.release()
WorkerFinally ==
    \E k \in DOMAIN srv.w :
        /\ srv.w[k].wpc = "finally"
        /\ srv' = [srv EXCEPT !.w[k].cap = "released", !.w[k].wpc = "mark"]
        /\ PipelineUnchanged

\* line 128: state.running = False
WorkerMark ==
    \E k \in DOMAIN srv.w :
        /\ srv.w[k].wpc = "mark"
        /\ srv' = [srv EXCEPT !.running = FALSE, !.w[k].wpc = "return"]
        /\ PipelineUnchanged

\* _capture_loop has returned (line 109, or past line 128): the thread ends
\* and is_alive() is False from now on
WorkerReturn ==
    \E k \in DOMAIN srv.w :
        /\ srv.w[k].wpc = "return"
        /\ srv' = [srv EXCEPT !.w[k].wpc = "done", !.w[k].thread = "dead"]
        /\ PipelineUnchanged

\* the steps of a worker whose camera opened
WorkerRun ==
    \/ WorkerOpen \/ WorkerEnter \/ WorkerExcept \/ WorkerLoop \/ WorkerRead
    \/ WorkerSleep \/ WorkerBuild \/ WorkerFill \/ WorkerUpdateLock
    \/ WorkerUpdateSet \/ WorkerFinally \/ WorkerMark \/ WorkerReturn

WorkerStep == WorkerRun \/ WorkerOpenError \/ WorkerOpenMark

\* _stop_capture line 144: _stop_event.set()
StopSet ==
    /\ srv.caller \in {"idle", "returned", "raised"}
    /\ srv.overlap \/ srv.starter = "idle"
    /\ srv' = [srv EXCEPT !.stop = TRUE, !.target = 0, !.caller = "check"]
    /\ sched' = IF IsAlive(srv) /\ sched.asked[srv.current] < 0
                THEN [sched EXCEPT !.asked[srv.current] = 0]
                ELSE sched
    /\ UNCHANGED <<ear, head, gaze, gest, conf, eng, pipe, result, obsEar, obsGest,
                   twin, cfg>>

\* line 145: if _capture_thread and _capture_thread.is_alive()
StopCheck ==
    /\ srv.caller = "check"
    /\ srv' = [srv EXCEPT !.caller = IF IsAlive(srv) THEN "join" ELSE "mark"]
    /\ PipelineUnchanged

\* line 146: _capture_thread.join(timeout=5) is called on the thread
\* _capture_thread refers to now, srv.target; join() of a thread that was
\* created and not yet started raises RuntimeError, and session_stop ends
\* without reaching line 147
StopJoin ==
    /\ srv.caller = "join"
    /\ srv' = [srv EXCEPT !.target = srv.current,
                          !.caller = IF srv.w[srv.current].thread = "created"
                                     THEN "raised" ELSE "joining"]
    /\ PipelineUnchanged

\* _capture_thread.join(timeout=5) returns because the worker has ended
StopJoined ==
    /\ srv.caller = "joining"
    /\ srv.w[srv.target].thread = "dead"
    /\ srv' = [srv EXCEPT !.caller = "mark"]
    /\ PipelineUnchanged

\* _capture_thread.join(timeout=5) returns because the 5 seconds have passed
\* with the worker still alive (inside cap.read, the constructor or a frame)
StopJoinTimeout ==
    /\ srv.caller = "joining"
    /\ srv.w[srv.target].thread = "alive"
    /\ srv' = [srv EXCEPT !.caller = "mark"]
    /\ PipelineUnchanged

\* line 147: state.running = False; _stop_capture returns
StopMark ==
    /\ srv.caller = "mark"
    /\ srv' = [srv EXCEPT !.running = FALSE, !.caller = "returned"]
    /\ PipelineUnchanged

\* all_metrics: _require_running() raises HTTPException(503) unless running
\* is set; reader.seen is what the request found: whether the worker of the
\* latest session had ended, and the cell
MetricsRequire ==
    /\ srv.reader.pc = "idle"
    /\ srv' = [srv EXCEPT
                 !.reader.pc = IF srv.running THEN "admitted" ELSE "rejected",
                 !.reader.seen = [ended |-> /\ srv.current # 0
                                            /\ srv.w[srv.current].thread = "dead",
                                  cell |-> srv.cell]]
    /\ PipelineUnchanged

\* SharedState.get: with self._lock (session_status calls it at once,
\* all_metrics after _require_running)
ReaderLock ==
    /\ srv.reader.pc \in {"idle", "admitted"}
    /\ srv.lock = "free"
    /\ srv' = [srv EXCEPT !.lock = "reader", !.reader.pc = "locked"]
    /\ PipelineUnchanged

\* SharedState.get: return self._result, lock released; reader.copy is what
\* the object held at that moment, reader.at the session the read was made
\* in (the number of starts so far) and whether it was marked running
ReaderGet ==
    /\ srv.reader.pc = "locked"
    /\ srv' = [srv EXCEPT !.lock = "free",
                          !.reader = [pc |-> "holding", ref |-> srv.cell,
                                      copy |-> srv.heap[srv.cell].val,
                                      seen |-> srv.reader.seen,
                                      at |-> [session |-> srv.starts,
                                              running |-> srv.running],
                                      prev |-> srv.reader.prev]]
    /\ PipelineUnchanged

\* the route handler has read the fields of r and built its response, or
\* the 503 response has been sent; the handler's locals are gone, and
\* reader.prev is the read just answered, if made in a running session
ReaderDone ==
    /\ srv.reader.pc \in {"holding", "rejected"}
    /\ srv' = [srv EXCEPT
                 !.reader = [pc |-> "idle", ref |-> 0, copy |-> EngagementResult(0),
                             seen |-> <<>>, at |-> <<>>,
                             prev |-> IF srv.reader.pc = "rejected"
                                      THEN srv.reader.prev
                                      ELSE IF srv.reader.at.running
                                      THEN [session |-> srv.reader.at.session,
                                            frame_number |-> srv.reader.copy.frame_number]
                                      ELSE <<>>]]
    /\ PipelineUnchanged

\* session_start, statement by statement
StartStep ==
    \/ StartCheck \/ StartClear \/ StartError \/ StartRunning \/ StartCreate
    \/ StartThread

NextServer ==
    \/ StartStep \/ DeviceLost
    \/ WorkerRun \/ WorkerOpenError \/ WorkerOpenMark
    \/ StopSet \/ StopCheck \/ StopJoin \/ StopJoined \/ StopJoinTimeout \/ StopMark
    \/ MetricsRequire \/ ReaderLock \/ ReaderGet \/ ReaderDone

SpecServer == InitServer /\ [][NextServer]_vars

\* the worker thread is scheduled as long as it has a step to take; the
\* camera looks at an empty seat
InitServerFair == InitServerWith(1, MaxServerFrames, {NoFace}, TRUE)

SpecServerFair == InitServerFair /\ [][NextServer]_vars /\ WF_vars(WorkerStep)

\* sessions may be started MaxStarts times; the callers of session_start and
\* session_stop and the workers, the camera opening every time and looking
\* at an empty seat
InitSessions == InitServerWith(MaxStarts, MaxServerFrames, {NoFace}, TRUE)

NextSessions ==
    \/ StartStep
    \/ WorkerRun
    \/ StopSet \/ StopCheck \/ StopJoin \/ StopJoined \/ StopJoinTimeout \/ StopMark

SpecSessions == InitSessions /\ [][NextSessions]_vars

\* sessions that follow one another: a session_start and a session_stop
\* request are never in progress together and every join returns with the
\* worker ended; and the reader of SharedState.  The camera looks at an empty
\* seat throughout (frames are counted all the same)
MaxRestartFrames == 3

InitRestart == InitServerWith(MaxStarts, MaxRestartFrames, {NoFace}, FALSE)

NextRestart ==
    \/ StartStep
    \/ WorkerRun
    \/ StopSet \/ StopCheck \/ StopJoin \/ StopJoined \/ StopMark
    \/ ReaderLock \/ ReaderGet \/ ReaderDone

SpecRestart == InitRestart /\ [][NextRestart]_vars

\* C18: the cell always refers to a result that process_frame has returned
\* (or to the initial default), and the object a reader obtained is such a
\* result and still holds what it held when the reader obtained it
C18_ReaderSeesCompleteSnapshot ==
    /\ srv.heap[srv.cell].complete
    /\ srv.reader.pc = "holding" =>
          /\ srv.heap[srv.reader.ref].complete
          /\ srv.heap[srv.reader.ref].val = srv.reader.copy

\* the reader holds the result of a frame with a face while the worker is
\* filling in the result of the next frame
C18_Witness ==
    /\ srv.reader.pc = "holding"
    /\ srv.reader.ref >= 1
    /\ srv.reader.copy.face_detected
    /\ srv.w[1].wpc = "fill"
    /\ srv.w[1].cur > srv.reader.ref
    /\ ~srv.heap[srv.w[1].cur].complete

\* C19: when _stop_capture has returned, the capture device of the worker it
\* joined is not held open
C19_StopReleasesCapture ==
    (srv.caller = "returned" /\ srv.target # 0) => srv.w[srv.target].cap # "open"

\* C20: once the device is lost with the capture open, the worker ends with
\* an error recorded and the session marked as not running, unless the caller
\* asks for the session to stop first
C20_DeviceLossSurfaced ==
    (srv.device = "lost" /\ srv.w[1].cap = "open")
        ~> \/ srv.w[1].thread = "dead" /\ srv.error # "none" /\ ~srv.running
           \/ srv.stop

\* C21: a metrics request made after the worker of the latest session has
\* ended, with a snapshot published, is not answered with an error
C21_LastSnapshotReadable ==
    ~(/\ srv.reader.pc = "rejected"
      /\ srv.reader.seen.ended
      /\ srv.reader.seen.cell # 0)

\* the positions of a worker that has left the loop
Ending == {"finally", "mark", "return", "done"}

\* C22: from a failed read until the same worker's next successful read, the
\* worker is not processing a frame, and its pipeline (every detector window
\* and counter, the frame number) and the shared snapshot are as the failed
\* read found them, the pipeline being closed once the worker has left the
\* loop on the stop event
C22_FailedReadSkipped ==
    sched.skip # <<>> =>
        LET k == sched.skip.k
        IN  /\ srv.w[k].wpc \in {"sleep", "loop", "read"} \cup Ending
            /\ srv.w[k].objects = IF srv.w[k].wpc \in Ending
                                  THEN EngagementPipeline_close(sched.skip.objects)
                                  ELSE sched.skip.objects
            /\ srv.cell = sched.skip.cell
            /\ srv.heap[srv.cell] = sched.skip.val

\* a read failed after a frame with a face was processed and published, and
\* the worker is about to read again
C22_Witness ==
    /\ sched.skip # <<>>
    /\ srv.w[1].wpc = "read"
    /\ srv.device = "ok"
    /\ sched.skip.cell >= 1
    /\ sched.skip.val.val.face_detected
    /\ srv.w[1].objects.pipe.frame_number = 1
    /\ Len(srv.w[1].objects.ear.ear_history) = 1

\* how far a worker is from the end of _capture_loop, by its position (idle:
\* its thread has not been started)
Rank ==
    [idle |-> 12, done |-> 0, return |-> 1, mark |-> 2, unmark |-> 2, finally |-> 3,
     unopened |-> 3, except |-> 4, loop |-> 4, sleep |-> 5, set |-> 5, update |-> 6,
     fill |-> 7, build |-> 8, read |-> 9, enter |-> 10, open |-> 11]

\* C29: a worker makes at most one read after the stop event is set; a
\* worker that has ended after entering the loop has closed its pipeline,
\* released its capture and left the session marked as not running; and
\* while the stop event stays set every step of the worker brings it closer
\* to its end, the check of the event in the loop condition leading out of
\* the loop
C29_StopEndsWorker ==
    /\ [](sched.afterStop[1] <= 1)
    /\ []((srv.w[1].wpc = "done" /\ srv.w[1].pipeline # "none")
             => (srv.w[1].pipeline = "closed" /\ srv.w[1].objects.pipe.closed
                 /\ srv.w[1].cap = "released" /\ ~srv.running))
    /\ [][(srv.stop /\ srv.stop' /\ srv.w[1].wpc' # srv.w[1].wpc)
             => /\ Rank[srv.w[1].wpc'] < Rank[srv.w[1].wpc]
                /\ srv.w[1].wpc = "loop" => srv.w[1].wpc' = "finally"]_vars

\* the stop event was set while the worker was about to read; the worker
\* made that read, published its result and then ended
C29_Witness ==
    /\ srv.stop
    /\ sched.afterStop[1] = 1
    /\ srv.w[1].thread = "dead"
    /\ srv.w[1].pipeline = "closed"
    /\ srv.w[1].objects.pipe.closed
    /\ srv.w[1].cap = "released"
    /\ ~srv.running
    /\ srv.cell >= 1
    /\ srv.cell = srv.w[1].cur

\* C30: at most one capture worker is alive
C30_OneWorkerAlive ==
    Cardinality({k \in DOMAIN srv.w : srv.w[k].thread = "alive"}) <= 1

\* C31: a worker that was alive when _stop_capture set the stop event reads
\* at most one more frame (the one of the iteration in progress), whatever
\* session starts follow
C31_StoppedWorkerHalts == \A k \in DOMAIN srv.w : sched.asked[k] <= 1

\* C32: a read of the cell made in a running session returns a snapshot
\* whose frame_number is not below that of the previous read made in the
\* same session
C32_ReadsMonotone ==
    (/\ srv.reader.pc = "holding"
     /\ srv.reader.at.running
     /\ srv.reader.prev # <<>>
     /\ srv.reader.prev.session = srv.reader.at.session)
        => srv.reader.copy.frame_number >= srv.reader.prev.frame_number

----------------------------------------------------------------------------
\* C28: the score compute returns is the weighted sum of the blink-rate
\* signal and of the three other inputs each clamped to [0, 1], and is never
\* below 0
C28_InputsClamped ==
    sched.last # <<>> =>
        LET in == sched.last.in
            clamped(x) == FMax(F0, FMin(Sig(x), F1))
            raw == ConfusionRaw(_blink_rate_signal(F(in.blinks_per_minute)),
                                clamped(in.head_angle_variance),
                                clamped(in.gaze_loss),
                                clamped(in.micro_movement))
        IN  /\ sched.last.score = ConfusionScore(raw)
            /\ sched.last.score >= 0

----------------------------------------------------------------------------
(* SpecLong: a long session.  Each frame either has no face or is the next  *)
(* of a fixed cycle of faces, so that every rolling buffer fills with       *)
(* changing values and the logging interval is passed.                      *)

MaxFramesLong == 62

FaceCycle == <<LmOpen, LmNoseDown, LmShutTilted, LmNarrow, LmNoseRight>>

\* the rolling buffers of the pipeline, by name
Buffers(o) ==
    [ear_history |-> o.ear.ear_history,
     angle_history |-> o.head.angle_history,
     deviation_history |-> o.gaze.deviation_history,
     var_history |-> o.head.var_history,
     nose_x_history |-> o.pipe.nose_x_history,
     nose_y_history |-> o.pipe.nose_y_history,
     contact_history |-> o.gaze.contact_history,
     score_history |-> o.eng.score_history,
     x_history |-> o.gest.x_history,
     y_history |-> o.gest.y_history]

\* the capacity each buffer is constructed with (deque(maxlen=...))
Capacity ==
    [ear_history |-> SMOOTHING_WINDOW,
     angle_history |-> SMOOTHING_WINDOW,
     deviation_history |-> SMOOTHING_WINDOW,
     var_history |-> CONFUSION_WINDOW,
     nose_x_history |-> CONFUSION_WINDOW,
     nose_y_history |-> CONFUSION_WINDOW,
     contact_history |-> ENGAGEMENT_WINDOW,
     score_history |-> ENGAGEMENT_WINDOW,
     x_history |-> GESTURE_WINDOW,
     y_history |-> GESTURE_WINDOW]

\* sched.faces counts the frames with a face; sched.pushed[b] is every value
\* appended to buffer b so far, oldest first
InitLong ==
    /\ Fresh
    /\ sched = [faces |-> 0, calls |-> 0, pushed |-> [b \in DOMAIN Capacity |-> <<>>]]
    /\ twin = <<>>
    /\ srv = <<>>
    /\ cfg = DefaultConfig

LongStep(frame) ==
    /\ pipe.frame_number < MaxFramesLong
    /\ ~pipe.closed
    /\ \E o \in {process_frame(Objects, frame, SteadyStart(Objects), SteadyInfer(Objects))} :
          LET b2 == Buffers(o)
          IN  /\ Install(o)
              /\ sched' = [faces |-> IF frame.face THEN sched.faces + 1 ELSE sched.faces,
                           calls |-> sched.calls + 1,
                           pushed |-> IF frame.face
                                      THEN [b \in DOMAIN Capacity |->
                                              Append(sched.pushed[b], b2[b][Len(b2[b])])]
                                      ELSE sched.pushed]
    /\ UNCHANGED <<obsEar, obsGest, twin, srv, cfg>>

LongFace == LongStep(Face(FaceCycle[(sched.faces % Len(FaceCycle)) + 1]))

LongNoFace == LongStep(NoFace)

\* the session ends: close() is called once, and no frame is processed after it
LongClose ==
    /\ ~pipe.closed
    /\ Install(EngagementPipeline_close(Objects))
    /\ UNCHANGED <<obsEar, obsGest, sched, twin, srv, cfg>>

NextLong == LongFace \/ LongNoFace \/ LongClose

SpecLong == InitLong /\ [][NextLong]_vars

\* C24: the log holds exactly one row for every processed frame whose number
\* is a multiple of LOG_INTERVAL_FRAMES, in order, and no other row
C24_LogEveryInterval ==
    /\ Len(pipe.logged) = pipe.frame_number \div LOG_INTERVAL_FRAMES
    /\ \A i \in 1..Len(pipe.logged) : pipe.logged[i] = i * LOG_INTERVAL_FRAMES

\* the last n entries of a sequence
LastN(s, n) == SubSeq(s, Len(s) - Min(Len(s), n) + 1, Len(s))

\* C25: no rolling buffer holds more entries than its capacity, and each
\* holds the most recent values appended to it, the oldest evicted first
C25_BuffersBounded ==
    \A b \in DOMAIN Capacity :
        /\ Len(Buffers(Objects)[b]) <= Capacity[b]
        /\ Buffers(Objects)[b] = LastN(sched.pushed[b], Capacity[b])

\* every buffer is full and has evicted values, the largest one included
C25_Witness ==
    /\ \A b \in DOMAIN Capacity :
          /\ Len(Buffers(Objects)[b]) = Capacity[b]
          /\ Len(sched.pushed[b]) > Capacity[b]
    /\ ear.ear_history[1] # ear.ear_history[2]
    /\ pipe.nose_y_history[1] # sched.pushed.nose_y_history[1]
    /\ sched.calls > sched.faces

----------------------------------------------------------------------------
(* SpecReset: the detectors and the engagement scorer are updated, reset,   *)
(* and then updated again next to freshly constructed instances (twin)      *)
(* that receive the same inputs.                                            *)

MaxPre == 4
MaxPost == 3

\* HeadPoseDetector.reset, EyeContactDetector.reset, GestureDetector.reset,
\* EngagementScorer.reset: each is self.__init__()
HeadPoseDetector_reset(h) == HeadPoseDetector_init
EyeContactDetector_reset(g) == EyeContactDetector_init
GestureDetector_reset(g) == GestureDetector_init
EngagementScorer_reset(s) == EngagementScorer_init

ResetFrames == {LmOpen, LmNarrow, LmShutTilted, LmNoseDown}
ResetConfusion == {0, 800}

\* the five resettable objects, as one value
Resettable == [ear |-> ear, head |-> head, gaze |-> gaze, gest |-> gest, eng |-> eng]

\* one update of each of the five with the same landmarks; the engagement
\* scorer takes the detectors' outputs and a confusion score
UpdateAll(o, lm, confusion) ==
    With([ear |-> EARDetector_update(o.ear, lm),
          head |-> HeadPoseDetector_update(o.head, lm),
          gaze |-> EyeContactDetector_update(o.gaze, lm),
          gest |-> GestureDetector_update(o.gest, lm)], LAMBDA d:
    With([ear_normalised |-> normalised_ear(d.ear),
          head_stability |-> normalised_stability(d.head)], LAMBDA a:
        [ear |-> d.ear, head |-> d.head, gaze |-> d.gaze, gest |-> d.gest,
         eng |-> EngagementScorer_compute(o.eng, a.ear_normalised, a.head_stability,
                                          d.gaze.contact_ratio, confusion)]))

InstallResettable(o) ==
    /\ ear' = o.ear
    /\ head' = o.head
    /\ gaze' = o.gaze
    /\ gest' = o.gest
    /\ eng' = o.eng

\* sched.used says what the updates before the reset had left behind
InitReset ==
    /\ Fresh
    /\ sched = [phase |-> "use", pre |-> 0, post |-> 0, used |-> FALSE]
    /\ twin = <<>>
    /\ srv = <<>>
    /\ cfg = DefaultConfig

ResetUpdate ==
    /\ sched.phase = "use"
    /\ sched.pre < MaxPre
    /\ \E lm \in ResetFrames, c \in ResetConfusion :
          InstallResettable(UpdateAll(Resettable, lm, c))
    /\ sched' = [sched EXCEPT !.pre = @ + 1]
    /\ UNCHANGED <<conf, pipe, result, obsEar, obsGest, twin, srv, cfg>>

\* reset() on each of the five; twin becomes five newly constructed instances
ResetAll ==
    /\ sched.phase = "use"
    /\ ear' = EARDetector_reset(ear)
    /\ head' = HeadPoseDetector_reset(head)
    /\ gaze' = EyeContactDetector_reset(gaze)
    /\ gest' = GestureDetector_reset(gest)
    /\ eng' = EngagementScorer_reset(eng)
    /\ twin' = [ear |-> EARDetector_init, head |-> HeadPoseDetector_init,
                gaze |-> EyeContactDetector_init, gest |-> GestureDetector_init,
                eng |-> EngagementScorer_init]
    /\ sched' = [sched EXCEPT !.phase = "after",
                              !.used = /\ ear.total_blinks >= 1
                                       /\ head.var_history # <<>>
                                       /\ gaze.contact_history # <<>>
                                       /\ gest.y_history # <<>>
                                       /\ Len(eng.score_history) = MaxPre]
    /\ UNCHANGED <<conf, pipe, result, obsEar, obsGest, srv, cfg>>

\* the same input to the reset instances and to the fresh ones
ResetReplay ==
    /\ sched.phase = "after"
    /\ sched.post < MaxPost
    /\ \E lm \in ResetFrames, c \in ResetConfusion :
          /\ InstallResettable(UpdateAll(Resettable, lm, c))
          /\ twin' = UpdateAll(twin, lm, c)
    /\ sched' = [sched EXCEPT !.post = @ + 1]
    /\ UNCHANGED <<conf, pipe, result, obsEar, obsGest, srv, cfg>>

NextReset == ResetUpdate \/ ResetAll \/ ResetReplay

SpecReset == InitReset /\ [][NextReset]_vars

\* C26: once reset, each of the five objects equals, field by field, a
\* freshly constructed instance given the same later inputs, whatever the
\* updates before the reset were
C26_ResetIsFresh == sched.phase = "after" => Resettable = twin

\* a reset after a counted blink and full use of the buffers, followed by updates
C26_Witness ==
    /\ sched.phase = "after"
    /\ sched.used
    /\ sched.post >= 2
    /\ ear.total_blinks = 0
    /\ Len(ear.ear_history) = sched.post
    /\ Resettable = twin

----------------------------------------------------------------------------
(* SpecGeometry: the geometry helpers of landmarks.py on landmark sets      *)
(* whose eye width, face width or face height may be zero.                  *)

\* eyes of width 0 and of width 50; face boxes whose right side may meet the
\* left one (x = 200) and whose bottom may meet the top (y = 100); the nose
\* tip at most two pixels off the left and top side
GeometryEyes == {Eye(va, va, h) : va \in {0, 15}, h \in {0, 50}}
GeometryNoseOffsets == {0, 1, 2}

GeometryLandmarks ==
    {[Landmarks(le, re, 0, 200 + dx, 100 + dy) EXCEPT !.right_x = rx, !.bot_y = by] :
        le \in GeometryEyes, re \in {Eye(15, 15, 50)},
        dx \in GeometryNoseOffsets, dy \in GeometryNoseOffsets,
        rx \in {200, 400}, by \in {100, 400}}

\* sched.lm is the landmark array; sched.out the values the helpers return
InitGeometry ==
    /\ Fresh
    /\ sched \in [lm : GeometryLandmarks, done : {FALSE}, out : {<<>>}]
    /\ twin = <<>>
    /\ srv = <<>>
    /\ cfg = DefaultConfig

Measure ==
    /\ ~sched.done
    /\ sched' = [sched EXCEPT !.done = TRUE,
                              !.out = [ear_left |-> eye_aspect_ratio(sched.lm.left_eye),
                                       ear_right |-> eye_aspect_ratio(sched.lm.right_eye),
                                       deviation |-> nose_face_deviation(sched.lm),
                                       nose |-> nose_position_normalised(sched.lm)]]
    /\ UNCHANGED <<ear, head, gaze, gest, conf, eng, pipe, result, obsEar, obsGest,
                   twin, srv, cfg>>

NextGeometry == Measure

SpecGeometry == InitGeometry /\ [][NextGeometry]_vars

\* C27: a helper whose denominator is zero returns 0: the eye aspect ratio of
\* an eye of width 0, the nose deviation and the normalised nose x of a face
\* of width 0, the normalised nose y of a face of height 0
C27_DegenerateIsZero ==
    sched.done =>
        /\ (sched.lm.left_eye.h = 0 => sched.out.ear_left = F0)
        /\ (sched.lm.right_x = sched.lm.left_x =>
                sched.out.deviation = F0 /\ sched.out.nose[1] = F0)
        /\ (sched.lm.bot_y = sched.lm.top_y => sched.out.nose[2] = F0)

====
